---------------------------- MODULE Spec2Model ----------------------------
(***************************************************************************)
(* State-machine model of the two incompressible Navier-Stokes time        *)
(* steppers of OpenIFEM: the single-process IMEX controller (InsIMEX) and  *)
(* the distributed Newton controller (ParallelNavierStokes), with the      *)
(* adaptive mesh refinement both of them run on a cadence.                 *)
(*                                                                         *)
(* Abstractions.  The mesh is a forest over one coarse cell whose cells    *)
(* have the children ChildIds; a cell is the path from the coarse cell, so *)
(* its level is the length of the path.  A block vector is tied to the     *)
(* mesh (DOF layout) it was sized for and carries two representative       *)
(* entries: b, a Dirichlet-constrained DOF, and f, a free DOF.  A matrix   *)
(* is tied to the mesh of its sparsity pattern and carries a content tag.  *)
(* Time is counted in ticks; the residual norms are powers of ten.         *)
(***************************************************************************)
EXTENDS Integers, Sequences, FiniteSets

VARIABLES
    ctrl,                \* which controller runs: "imex" or "newton"
    pc,                  \* position of the run
    failure,             \* "none", or the fatal condition that ended the run
    parameters,          \* Parameters::AllParameters (the part the core reads)
    time,                \* Utils::Time
    mesh,                \* triangulation: the set of active cells
    refine_flags,        \* active cells carrying a refine flag
    coarsen_flags,       \* active cells carrying a coarsen flag
    dofs,                \* dof_handler / dofs_per_block: the mesh the DOFs are distributed on
    nonzero_constraints, \* ConstraintMatrix with the inhomogeneous values
    zero_constraints,    \* ConstraintMatrix with homogeneous values
    system_matrix,
    mass_matrix,
    mass_schur,
    preconditioner,      \* std::shared_ptr<BlockSchurPreconditioner>
    system_rhs,
    present_solution,
    increment,           \* solution_increment (IMEX) / newton_update (Newton)
    evaluation_point,    \* Newton only
    newton,              \* locals of ParallelNavierStokes::run_one_step
    rm,                  \* refine_mesh: its arguments
    buffer,              \* refine_mesh: the field handed to SolutionTransfer
    cell_property,       \* CellDataStorage: the quadrature-point records of the cells
    returned,            \* the field the last get_current_solution() returned
    solver_control,      \* the SolverControl of the last linear solve that ended
    vm,                  \* one application of BlockSchurPreconditioner::vmult
    hist                 \* history of the run (observations, not program state)

vars == <<ctrl, pc, failure, parameters, time, mesh, refine_flags, coarsen_flags,
          dofs, nonzero_constraints, zero_constraints, system_matrix, mass_matrix,
          mass_schur, preconditioner, system_rhs, present_solution, increment,
          evaluation_point, newton, rm, buffer, cell_property, returned,
          solver_control, vm, hist>>

-----------------------------------------------------------------------------
(* Bounds of the model *)

MaxEndTime == 3        \* end_time, in ticks
MaxGlobal == 1         \* parameters.global_refinement
MaxIteration == 2      \* parameters.fluid_max_iterations
MaxFlagged == 1        \* cells the error estimate flags in one refine_mesh

-----------------------------------------------------------------------------
(* Triangulation *)

ChildIds == {1, 2}

NoCells == {}

Level(c) == Len(c)

Children(c) == {Append(c, k) : k \in ChildIds}

Parent(c) == SubSeq(c, 1, Len(c) - 1)

RECURSIVE CellsAtLevel(_)
CellsAtLevel(l) ==
    IF l = 0 THEN {<<>>}
    ELSE UNION {Children(c) : c \in CellsAtLevel(l - 1)}

\* triangulation.refine_global(n) on the coarse mesh
RefineGlobal(n) == CellsAtLevel(n)

\* triangulation.n_levels(): the level of the most refined active cell plus one
NLevels(m) == CHOOSE n \in 1..(Cardinality(m) + 1) :
                  /\ \E c \in m : Level(c) = n - 1
                  /\ \A c \in m : Level(c) <= n - 1


\* GridRefinement::refine_and_coarsen_fixed_fraction(.., 0.6, 0.4) on the Kelly
\* estimate.  The error indicator is an outside collaborator: the cells that
\* carry the top of the error come back flagged for refinement (any set of at
\* most MaxFlagged active cells), and either all the other cells or none of
\* them come back flagged for coarsening
Flaggings(m) ==
    UNION {{[refine |-> r, coarsen |-> m \ r], [refine |-> r, coarsen |-> NoCells]} :
              r \in {x \in SUBSET m : Cardinality(x) <= MaxFlagged}}

\* a variant that leaves the refine flags as the estimator set them
KeepRefineFlags(m, flagged, max_grid_level) == flagged

\* the loop over begin_active(max_grid_level) .. end(), guarded by n_levels()
ClearRefineFlags(m, flagged, max_grid_level) ==
    IF NLevels(m) > max_grid_level
    THEN {c \in flagged : Level(c) < max_grid_level}
    ELSE flagged

\* the loop over begin_active(min_grid_level) .. end_active(min_grid_level)
ClearCoarsenFlags(m, flagged, min_grid_level) ==
    {c \in flagged : Level(c) # min_grid_level}

\* triangulation.prepare_coarsening_and_refinement(): a coarsen flag survives
\* only on a cell all of whose siblings are active and flagged as well
PrepareCoarsening(m, flagged) ==
    {c \in flagged : Level(c) > 0 /\ Children(Parent(c)) \subseteq flagged}

\* triangulation.execute_coarsening_and_refinement()
ExecuteCoarseningAndRefinement(m, rf, cf) ==
    (m \ (rf \cup cf)) \cup UNION {Children(c) : c \in rf} \cup {Parent(c) : c \in cf}

-----------------------------------------------------------------------------
(* Norms: 0, a power of ten, +inf or NaN *)

Zero == [k |-> "zero", e |-> 0]
Pos(e) == [k |-> "pos", e |-> e]
Inf == [k |-> "inf", e |-> 0]
NaN == [k |-> "nan", e |-> 0]

\* x > y on doubles
Gt(x, y) ==
    CASE x.k = "nan" \/ y.k = "nan" -> FALSE
      [] x.k = "inf" -> y.k # "inf"
      [] x.k = "zero" -> FALSE
      [] OTHER -> y.k = "zero" \/ (y.k = "pos" /\ x.e > y.e)

\* x / y on non-negative doubles
Quot(x, y) ==
    CASE y.k = "zero" -> (IF x.k = "zero" THEN NaN ELSE Inf)
      [] x.k = "zero" -> Zero
      [] OTHER -> Pos(x.e - y.e)

\* system_rhs.l2_norm(): the entries of the right-hand side are the assembler's,
\* so its norm is an input, drawn where the code reads it
RhsNorms == {Zero, Pos(-14), Pos(-7), Pos(0)}

\* parameters.fluid_tolerance
Tolerances == {Pos(-6), Pos(0)}

\* the free-DOF entry an outer Krylov solve may return
IncVals == {1}

\* the value the Dirichlet data prescribes at the constrained DOF
BCValues == {1}

\* the space dimensions the controllers are instantiated for
Dimensions == {2, 3}

\* the component flag of the boundary-condition entry: x and y, and two values
\* outside 1..7
BCFlags == {3, 0, 8}

-----------------------------------------------------------------------------
(* Vectors, matrices, constraints *)

Vec(m, b, f) == [mesh |-> m, b |-> b, f |-> f]

EmptyVec == Vec(NoCells, 0, 0)

\* the right-hand side: the DOF layout it is sized for, and whether it has been
\* assembled since it was sized
\* assembled since it was sized; force is what the coupling data of each
\* quadrature point added to it in the last assembly
NoForce == [c \in NoCells |-> <<>>]

Rhs(m, filled) == [mesh |-> m, filled |-> filled, force |-> NoForce]

\* a matrix: the mesh of its sparsity pattern, and what its entries hold:
\* nothing ("empty"), zeros ("zero"), or an assembly ("assembled") made with the
\* constraint set cons at the linearisation point at
Matrix(m, kind, cons, at) == [mesh |-> m, kind |-> kind, cons |-> cons, at |-> at]

\* matrix.clear()
EmptyMatrix == Matrix(NoCells, "empty", "none", <<>>)

\* matrix.reinit(sparsity_pattern): the pattern of the DOF layout, all entries 0
ReinitMatrix(m) == Matrix(m, "zero", "none", <<>>)

\* a variant of the selection that always takes the zero set
ConstraintsUsedZero(use_nonzero_constraints) == zero_constraints

ConstraintsUsed(use_nonzero_constraints) ==
    IF use_nonzero_constraints THEN nonzero_constraints ELSE zero_constraints

ConstraintName(use_nonzero_constraints) ==
    IF use_nonzero_constraints THEN "nonzero" ELSE "zero"

\* mask: the components of the solution the boundary entry constrains
NoConstraints == [mesh |-> NoCells, b |-> 0, mask |-> {}]

\* built: the time step and the solve call of that step that constructed it
NullPreconditioner == [null |-> TRUE, mesh |-> NoCells, built |-> <<0, 0>>]

\* ConstraintMatrix::distribute(v): the constrained entry takes its prescribed value
Distribute(cm, v) == [v EXCEPT !.b = cm.b]

-----------------------------------------------------------------------------
(* CellDataStorage<.., CellProperty>: the records of the quadrature points *)

\* volume_quad_formula.size()
NQPoints == 2

\* the values the coupling collaborator may write into a record
CouplingValues == {1}

\* a CellProperty whose three fields hold v
Property(v) == [indicator |-> v, fsi_acceleration |-> v, fsi_stress |-> v]

\* a variant of the body force that reads the stress and the acceleration of
\* every quadrature point
BodyForceUngated(cp, cells) ==
    [c \in cells |->
        [q \in 1..NQPoints |-> <<cp[c][q].fsi_stress, cp[c][q].fsi_acceleration>>]]

\* the contribution of the coupling data to local_rhs, per active cell and
\* quadrature point: if (ind == 1) local_rhs(i) += (grad_phi_u[i] : fsi_stress
\* + fsi_acceleration * rho * phi_u[i]) * JxW
BodyForce(cp, cells) ==
    [c \in cells |->
        [q \in 1..NQPoints |->
            IF cp[c][q].indicator = 1
            THEN <<cp[c][q].fsi_stress, cp[c][q].fsi_acceleration>>
            ELSE <<0, 0>>]]

\* the fields of a record nobody has written since it came to its cell: what
\* the default constructor of CellProperty left, or what the cell that had the
\* slot (level, index) before left.  -1 stands for either; the fields are
\* written before they are read
FreshProperty == Property(-1)

\* the storage before any cell was initialised
NoProperties == [c \in NoCells |-> <<>>]

\* the cells of the triangulation whose active cells are cells: the active
\* cells and the refined cells above them
InTriangulation(cells) ==
    UNION {{SubSeq(c, 1, n) : n \in 0..Len(c)} : c \in cells}

\* cell_property.initialize(begin_active, end, n_q_points): a cell that has no
\* data gets n_q_points new records; a cell that has data keeps it.  The
\* storage is keyed by the cell's slot, and the slot of a cell that coarsening
\* deleted goes to a cell created later: the model keeps the data of the
\* cells that are in the triangulation
InitializeCellData(cp, cells, n_q_points) ==
    [c \in ((DOMAIN cp) \cap InTriangulation(cells)) \cup cells |->
        IF c \in DOMAIN cp THEN cp[c] ELSE [q \in 1..n_q_points |-> FreshProperty]]

\* a variant of setup_cell_property without the loop that zeroes the records
InitializeOnly(cp, cells) == InitializeCellData(cp, cells, NQPoints)

\* setup_cell_property(): initialize, then the loop over the active cells
\* that zeroes the three fields of every record.  In the distributed
\* controller the loop takes the locally owned cells; the model has one
\* process, which owns them all
SetupCellProperty(cp, cells) ==
    LET data == InitializeCellData(cp, cells, NQPoints)
    IN  [c \in DOMAIN data |->
            IF c \in cells
            THEN [q \in 1..NQPoints |->
                     [data[c][q] EXCEPT !.indicator = 0,
                                        !.fsi_acceleration = 0,
                                        !.fsi_stress = 0]]
            ELSE data[c]]

-----------------------------------------------------------------------------
(* Utils::Time: the clock and the cadence predicates *)

\* Time(end_time, time_step, output_interval, refinement_interval); a tick is
\* one time_step
NewTime(par) ==
    [current |-> 0, timestep |-> 0, end |-> par.end_time, delta_t |-> 1,
     output_interval |-> par.output_interval,
     refinement_interval |-> par.refinement_interval]

\* time.increment()
Increment(t) ==
    [t EXCEPT !.current = t.current + t.delta_t, !.timestep = t.timestep + 1]

\* time.time_to_output()
TimeToOutput(t) ==
    LET delta == t.output_interval \div t.delta_t
    IN  t.timestep >= delta /\ t.timestep % delta = 0

\* time.time_to_refine()
TimeToRefine(t) ==
    LET delta == t.refinement_interval \div t.delta_t
    IN  t.timestep >= delta /\ t.timestep % delta = 0

\* the loop test of run(): time.end() - time.current() > 1e-12
TimeLeft(t) == t.end > t.current

-----------------------------------------------------------------------------
(* Configurations and the state after construction *)

Controllers == {"imex", "newton"}

\* the IMEX controller stores tolerance and max_iteration and never reads them
ParametersOf(c) ==
    [end_time : {0, MaxEndTime},
     output_interval : {1, MaxEndTime},
     refinement_interval : 1..MaxEndTime,
     global_refinement : {MaxGlobal},
     tolerance : IF c = "newton" THEN Tolerances ELSE {Pos(-6)},
     max_iteration : IF c = "newton" THEN 1..MaxIteration ELSE {1},
     bc_flag : BCFlags,
     bc_value : BCValues,
     dim : {2}]

NewtonLocals ==
    [apply_nonzero_constraints |-> FALSE, current_residual |-> Pos(0),
     initial_residual |-> Pos(0), relative_residual |-> Pos(0),
     outer_iteration |-> 0]

NoEvent == <<"none", 0>>

NoOperators == [step |-> 0, system |-> EmptyMatrix, mass |-> EmptyMatrix]

InitHist ==
    [completed |-> 0,            \* time steps whose nonlinear solve completed
     ev |-> NoEvent,             \* the last assemble/solve/update/refine event
     used_nonzero |-> FALSE,     \* constraint choice of the last assemble/solve
     iterations |-> 0,           \* assemble/solve iterations of the current step
     solved |-> NoOperators,     \* the operators at the last solve
     solved_before |-> NoOperators,  \* ... and at the solve before it
     refined_in |-> 0,           \* the last time step that ran refine_mesh
     outputs |-> 0,              \* calls of output_results
     snapshot |-> EmptyVec,      \* present_solution when refine_mesh began
     mesh_before |-> NoCells,    \* the active cells when refine_mesh began
     flagged_max |-> FALSE,      \* the estimator flagged a cell at or above max for refinement
     flagged_min |-> FALSE]      \* the estimator flagged a cell at min for coarsening

\* no linear solve has ended yet
NoSolverControl ==
    [solver |-> "none", max_steps |-> 0, reduction |-> 0, state |-> "none"]

\* no preconditioner application is under way
NoVmult == [at |-> "idle"]

RefineArgs(min_grid_level, max_grid_level) ==
    [min_grid_level |-> min_grid_level, max_grid_level |-> max_grid_level]


Init ==
    /\ ctrl \in Controllers
    /\ parameters \in ParametersOf(ctrl)
    /\ time = NewTime(parameters)
    /\ pc = "start"
    /\ failure = "none"
    /\ mesh = RefineGlobal(0)
    /\ refine_flags = NoCells
    /\ coarsen_flags = NoCells
    /\ dofs = NoCells
    /\ nonzero_constraints = NoConstraints
    /\ zero_constraints = NoConstraints
    /\ system_matrix = EmptyMatrix
    /\ mass_matrix = EmptyMatrix
    /\ mass_schur = EmptyMatrix
    /\ preconditioner = NullPreconditioner
    /\ system_rhs = Rhs(NoCells, FALSE)
    /\ present_solution = EmptyVec
    /\ increment = EmptyVec
    /\ evaluation_point = EmptyVec
    /\ newton = NewtonLocals
    /\ rm = RefineArgs(0, 0)
    /\ buffer = EmptyVec
    /\ cell_property = NoProperties
    /\ returned = EmptyVec
    /\ solver_control = NoSolverControl
    /\ vm = NoVmult
    /\ hist = InitHist

-----------------------------------------------------------------------------
(* setup_dofs, make_constraints, initialize_system *)

\* setup_dofs(): distribute the DOFs on the mesh m
SetupDofs(m) == dofs' = m

\* a variant of the failure exit that records the failure and goes on to the
\* output of the step
AbortAndGoOn(kind) ==
    /\ pc' = "output"
    /\ failure' = kind

\* a fatal condition (an exception nobody catches, or a crash) ends the run
Abort(kind) ==
    /\ pc' = "aborted"
    /\ failure' = kind

\* what the switch on the component flag leaves for a flag it does not know
Unrecognized == {-1}

\* a variant of the switch whose default branch constrains every component
ComponentMaskLenient(flag) ==
    CASE flag = 1 -> {0}
      [] flag = 2 -> {1}
      [] flag = 3 -> {0, 1}
      [] flag = 4 -> {2}
      [] flag = 5 -> {0, 2}
      [] flag = 6 -> {1, 2}
      [] OTHER -> {0, 1, 2}

\* the switch on the component flag of a boundary-condition entry: the set of
\* the indices of mask that it sets (1-x, 2-y, 3-xy, 4-z, 5-xz, 6-yz, 7-xyz);
\* the default branch throws
ComponentMask(flag) ==
    CASE flag = 1 -> {0}
      [] flag = 2 -> {1}
      [] flag = 3 -> {0, 1}
      [] flag = 4 -> {2}
      [] flag = 5 -> {0, 2}
      [] flag = 6 -> {1, 2}
      [] flag = 7 -> {0, 1, 2}
      [] OTHER -> Unrecognized

\* a variant of make_constraints that rebuilds the nonzero set alone
MakeConstraintsNonzeroOnly(d) ==
    IF ComponentMask(parameters.bc_flag) # Unrecognized
    THEN /\ nonzero_constraints' =
                [mesh |-> d, b |-> parameters.bc_value,
                 mask |-> ComponentMask(parameters.bc_flag)]
         /\ zero_constraints' = zero_constraints
    ELSE /\ nonzero_constraints' = [mesh |-> d, b |-> 0, mask |-> {}]
         /\ zero_constraints' = zero_constraints
         /\ Abort("configuration")

\* the entries of the value list the switch reads for a flag: value[0],
\* value[1], value[2] in the order of the components set
ValuesRead(flag) ==
    CASE flag = 1 -> {0}
      [] flag = 2 -> {0}
      [] flag = 3 -> {0, 1}
      [] flag = 4 -> {0}
      [] flag = 5 -> {0, 1}
      [] flag = 6 -> {0, 1}
      [] flag = 7 -> {0, 1, 2}
      [] OTHER -> {}

\* make_constraints(): both sets are cleared and rebuilt on the DOF layout d.
\* With a component flag the switch does not know, the AssertThrow leaves the
\* sets with the hanging-node relations alone, not closed, and make_constraints
\* with an exception
MakeConstraints(d) ==
    IF ComponentMask(parameters.bc_flag) # Unrecognized
    THEN /\ nonzero_constraints' =
                [mesh |-> d, b |-> parameters.bc_value,
                 mask |-> ComponentMask(parameters.bc_flag)]
         /\ zero_constraints' =
                [mesh |-> d, b |-> 0, mask |-> ComponentMask(parameters.bc_flag)]
    ELSE /\ nonzero_constraints' = [mesh |-> d, b |-> 0, mask |-> {}]
         /\ zero_constraints' = [mesh |-> d, b |-> 0, mask |-> {}]
         /\ Abort("configuration")

\* initialize_system(): drop the preconditioner, clear and re-size the matrices,
\* re-size (and so zero) every vector on the DOF layout d, and set up the cell
\* properties of the active cells, which are the cells d was distributed on
InitializeSystem(d) ==
    /\ preconditioner' = NullPreconditioner
    /\ system_matrix' = ReinitMatrix(d)
    /\ mass_matrix' = ReinitMatrix(d)
    /\ mass_schur' = ReinitMatrix(d)
    /\ present_solution' = Vec(d, 0, 0)
    /\ increment' = Vec(d, 0, 0)
    /\ system_rhs' = Rhs(d, FALSE)
    /\ evaluation_point' = IF ctrl = "newton" THEN Vec(d, 0, 0) ELSE evaluation_point
    /\ cell_property' = SetupCellProperty(cell_property, d)

-----------------------------------------------------------------------------
(* run() *)

\* run(), up to the time loop: refine_global, setup_dofs, make_constraints,
\* initialize_system.  The Newton run() then calls run_one_step(true) without
\* testing the clock; the IMEX run() enters its while loop.
RunSetup ==
    /\ pc = "start"
    /\ LET m == RefineGlobal(parameters.global_refinement)
       IN  /\ mesh' = m
           /\ SetupDofs(m)
           /\ MakeConstraints(m)
           /\ IF ComponentMask(parameters.bc_flag) # Unrecognized
              THEN /\ InitializeSystem(m)
                   /\ pc' = IF ctrl = "newton" THEN "step" ELSE "loop"
                   /\ newton' = [newton EXCEPT
                                   !.apply_nonzero_constraints = (ctrl = "newton")]
                   /\ failure' = failure
              ELSE UNCHANGED <<system_matrix, mass_matrix, mass_schur,
                               preconditioner, system_rhs, present_solution,
                               increment, evaluation_point, cell_property, newton>>
    /\ UNCHANGED <<returned, vm, solver_control>>
    /\ UNCHANGED <<ctrl, parameters, time, refine_flags, coarsen_flags,
                   rm, buffer, hist>>

\* while (time.end() - time.current() > 1e-12) run_one_step(...); the history
\* keeps what it holds of a refine_mesh until the loop test that follows it
RunLoop ==
    /\ pc = "loop"
    /\ pc' = IF TimeLeft(time) THEN "step" ELSE "done"
    /\ newton' = [newton EXCEPT !.apply_nonzero_constraints = FALSE]
    /\ UNCHANGED <<cell_property, returned, vm, solver_control>>
    /\ UNCHANGED <<ctrl, failure, parameters, time, mesh, refine_flags,
                   coarsen_flags, dofs, nonzero_constraints, zero_constraints,
                   system_matrix, mass_matrix, mass_schur, preconditioner,
                   system_rhs, present_solution, increment, evaluation_point,
                   rm, buffer>>
    /\ hist' = [hist EXCEPT !.snapshot = EmptyVec, !.mesh_before = NoCells,
                            !.flagged_max = FALSE, !.flagged_min = FALSE]

-----------------------------------------------------------------------------
(* What both controllers share *)

\* v += w
Add(v, w) == [v EXCEPT !.b = v.b + w.b, !.f = v.f + w.f]

\* a variant of the reset that leaves the vector as it is
KeepVector(v) == v

\* v = 0
SetZero(v) == [v EXCEPT !.b = 0, !.f = 0]

\* the preconditioner constructor: keeps pointers to the system and mass
\* matrices and fills mass_schur with B diag(M)^{-1} B^T
NewPreconditioner ==
    [null |-> FALSE, mesh |-> system_matrix.mesh,
     built |-> <<time.timestep, hist.iterations + 1>>]

BuildSchur == Matrix(mass_schur.mesh, "assembled", system_matrix.cons, <<>>)

\* the events of a run that the history keeps
Event(kind) == <<kind, time.timestep>>

\* the if (time.get_timestep() == 0) output_results(0) at the head of run_one_step
InitialOutput(t) == IF t.timestep = 0 THEN 1 ELSE 0

\* the tail of run_one_step: output_results and refine_mesh(1, 3) on their cadence
OutputAndRefine ==
    /\ pc = "output"
    /\ hist' = [hist EXCEPT !.outputs = @ + (IF TimeToOutput(time) THEN 1 ELSE 0)]
    /\ IF TimeToRefine(time)
       THEN pc' = "refine_mesh" /\ rm' = RefineArgs(1, 3)
       ELSE pc' = "loop" /\ rm' = rm
    /\ UNCHANGED <<cell_property, returned, vm, solver_control>>
    /\ UNCHANGED <<ctrl, failure, parameters, time, mesh, refine_flags,
                   coarsen_flags, dofs, nonzero_constraints, zero_constraints,
                   system_matrix, mass_matrix, mass_schur, preconditioner,
                   system_rhs, present_solution, increment, evaluation_point,
                   newton, buffer>>

-----------------------------------------------------------------------------
(* InsIMEX::run_one_step *)

\* a variant that ties the constraint choice to the steps that assemble the
\* matrices
ImexApplyNonzeroWhileAssembling(t) == t.timestep < 3

\* bool apply_nonzero_constraints = (time.get_timestep() == 1)
ImexApplyNonzero(t) == t.timestep = 1

\* a variant that assembles, and so constructs the preconditioner, at every step
ImexAssembleAlways(t) == t.timestep >= 1

\* bool assemble_system = (time.get_timestep() < 3)
ImexAssembleSystem(t) == t.timestep < 3

\* the head of run_one_step: first output, time.increment(), solution_increment = 0
ImexStepBegin ==
    /\ pc = "step" /\ ctrl = "imex"
    /\ time' = Increment(time)
    /\ increment' = SetZero(increment)
    /\ hist' = [hist EXCEPT !.outputs = @ + InitialOutput(time), !.iterations = 0]
    /\ pc' = "assemble"
    /\ UNCHANGED <<cell_property, returned, vm, solver_control>>
    /\ UNCHANGED <<ctrl, failure, parameters, mesh, refine_flags, coarsen_flags,
                   dofs, nonzero_constraints, zero_constraints, system_matrix,
                   mass_matrix, mass_schur, preconditioner, system_rhs,
                   present_solution, evaluation_point, newton, rm, buffer>>

\* InsIMEX::assemble(use_nonzero_constraints, assemble_system): the matrices
\* are zeroed and filled only if assemble_system; the right-hand side always
ImexAssembleCall(use_nonzero_constraints, assemble_system) ==
    /\ system_matrix' =
          IF assemble_system
          THEN Matrix(system_matrix.mesh, "assembled",
                      ConstraintName(use_nonzero_constraints), <<>>)
          ELSE system_matrix
    /\ mass_matrix' =
          IF assemble_system
          THEN Matrix(mass_matrix.mesh, "assembled",
                      ConstraintName(use_nonzero_constraints), <<>>)
          ELSE mass_matrix
    /\ system_rhs' = [Rhs(system_rhs.mesh, TRUE) EXCEPT
                         !.force = BodyForce(cell_property, mesh)]

ImexAssemble ==
    /\ pc = "assemble" /\ ctrl = "imex"
    /\ ImexAssembleCall(ImexApplyNonzero(time), ImexAssembleSystem(time))
    /\ hist' = [hist EXCEPT !.ev = Event("assemble"),
                            !.used_nonzero = ImexApplyNonzero(time)]
    /\ pc' = "solve"
    /\ UNCHANGED <<cell_property, returned, vm, solver_control>>
    /\ UNCHANGED <<ctrl, failure, parameters, time, mesh, refine_flags,
                   coarsen_flags, dofs, nonzero_constraints, zero_constraints,
                   mass_schur, preconditioner, present_solution, increment,
                   evaluation_point, newton, rm, buffer>>

\* the history of a solve
NoteSolve(use_nonzero_constraints) ==
    [hist EXCEPT !.ev = Event("solve"),
                 !.used_nonzero = use_nonzero_constraints,
                 !.iterations = @ + 1]

\* DoFTools::count_dofs_per_block on the DOF layout d: the velocity block and
\* the pressure block, counted per cell (two velocity components, one pressure)
DofsPerBlock(d) == <<2 * Cardinality(d), Cardinality(d)>>

\* a variant that bounds the outer solve by the size of the velocity block
OuterMaxStepsVelocityBlock(d) == DofsPerBlock(d)[1]

\* system_matrix.m(): the number of rows of the block matrix, all blocks
OuterMaxSteps(d) == DofsPerBlock(d)[1] + DofsPerBlock(d)[2]

\* the iterative solves inside vmult: the three conjugate gradients of the
\* IMEX preconditioner; the Newton preconditioner solves the velocity block
\* directly and iterates only on the two pressure-block solves
InnerSolvers(c) ==
    IF c = "imex" THEN {"cg_mp", "cg_sm", "cg_a"} ELSE {"cg_mp", "cg_sm"}

\* the budget of an inner solve: the size of the block of src it works on
InnerMaxSteps(solver, d) ==
    IF solver = "cg_a" THEN DofsPerBlock(d)[1] ELSE DofsPerBlock(d)[2]

\* SolverControl(max_steps, reduction * norm of what), after its last check
SolverControl(solver, max_steps, reduction, state) ==
    [solver |-> solver, max_steps |-> max_steps, reduction |-> reduction,
     state |-> state]

\* SolverControl solver_control(system_matrix.m(), 1e-8 * system_rhs.l2_norm(), true)
OuterControl(state) ==
    SolverControl("fgmres", OuterMaxSteps(system_matrix.mesh), -8, state)

\* SolverControl(src.block(i).size(), 1e-6 * src.block(i).l2_norm())
InnerControl(solver, state) ==
    SolverControl(solver, InnerMaxSteps(solver, system_matrix.mesh), -6, state)

\* a variant of the solve in which an inner solve that runs out of its budget
\* leaves its last iterate and the outer solve goes on with it
KrylovSolveTruncating(pre, use_nonzero_constraints, after) ==
    IF pre.null
    THEN \E n \in RhsNorms :
            IF n = Zero
            THEN /\ increment' = Distribute(ConstraintsUsed(use_nonzero_constraints),
                                            increment)
                 /\ solver_control' = OuterControl("success")
                 /\ pc' = after /\ failure' = failure
            ELSE /\ increment' = increment
                 /\ solver_control' = OuterControl("iterate")
                 /\ Abort("segv")
    ELSE \/ \E f \in IncVals :
              /\ increment' = Distribute(ConstraintsUsed(use_nonzero_constraints),
                                         [increment EXCEPT !.f = f])
              /\ solver_control' = OuterControl("success")
              /\ pc' = after /\ failure' = failure
         \/ \E f \in IncVals :
              /\ increment' = [increment EXCEPT !.f = f]
              /\ solver_control' = OuterControl("failure")
              /\ Abort("krylov")
         \/ \E solver \in InnerSolvers(ctrl), f \in IncVals :
              /\ increment' = Distribute(ConstraintsUsed(use_nonzero_constraints),
                                         [increment EXCEPT !.f = f])
              /\ solver_control' = InnerControl(solver, "failure")
              /\ pc' = after /\ failure' = "inner"

\* gmres.solve(system_matrix, x, system_rhs, *preconditioner) and the
\* distribute that follows, with the preconditioner pre.  The flexible GMRES
\* either converges, or runs out of its iteration budget and throws, or one of
\* the iterative solves inside vmult runs out of its own and throws: nothing
\* catches either exception, and the distribute is not reached.  With a null
\* preconditioner the dereference is undefined: the first vmult crashes,
\* unless the initial residual already meets the tolerance (a zero right-hand
\* side) and vmult is never called.
KrylovSolve(pre, use_nonzero_constraints, after) ==
    IF pre.null
    THEN \E n \in RhsNorms :
            IF n = Zero
            THEN /\ increment' = Distribute(ConstraintsUsed(use_nonzero_constraints),
                                            increment)
                 /\ solver_control' = OuterControl("success")
                 /\ pc' = after /\ failure' = failure
            ELSE /\ increment' = increment
                 /\ solver_control' = OuterControl("iterate")
                 /\ Abort("segv")
    ELSE \/ \E f \in IncVals :
              /\ increment' = Distribute(ConstraintsUsed(use_nonzero_constraints),
                                         [increment EXCEPT !.f = f])
              /\ solver_control' = OuterControl("success")
              /\ pc' = after /\ failure' = failure
         \/ \E f \in IncVals :
              /\ increment' = [increment EXCEPT !.f = f]
              /\ solver_control' = OuterControl("failure")
              /\ Abort("krylov")
         \/ \E solver \in InnerSolvers(ctrl), f \in IncVals :
              /\ increment' = [increment EXCEPT !.f = f]
              /\ solver_control' = InnerControl(solver, "failure")
              /\ Abort("inner")

\* a variant of solve that hands over to the refinement before the solution
\* has been updated
ImexSolveCallThenRefine(use_nonzero_constraints, assemble_system) ==
    /\ preconditioner' = IF assemble_system THEN NewPreconditioner ELSE preconditioner
    /\ mass_schur' = IF assemble_system THEN BuildSchur ELSE mass_schur
    /\ KrylovSolve(IF assemble_system THEN NewPreconditioner ELSE preconditioner,
                   use_nonzero_constraints, "refine_mesh")

\* InsIMEX::solve(use_nonzero_constraints, assemble_system): a new
\* preconditioner only if assemble_system
ImexSolveCall(use_nonzero_constraints, assemble_system) ==
    /\ preconditioner' = IF assemble_system THEN NewPreconditioner ELSE preconditioner
    /\ mass_schur' = IF assemble_system THEN BuildSchur ELSE mass_schur
    /\ KrylovSolve(IF assemble_system THEN NewPreconditioner ELSE preconditioner,
                   use_nonzero_constraints, "update")

ImexSolve ==
    /\ pc = "solve" /\ ctrl = "imex"
    /\ ImexSolveCall(ImexApplyNonzero(time), ImexAssembleSystem(time))
    /\ hist' = [NoteSolve(ImexApplyNonzero(time)) EXCEPT
                    !.solved_before = hist.solved,
                    !.solved = [step |-> time.timestep, system |-> system_matrix,
                                mass |-> mass_matrix]]
    /\ UNCHANGED <<cell_property, returned, vm>>
    /\ UNCHANGED <<ctrl, parameters, time, mesh, refine_flags, coarsen_flags,
                   dofs, nonzero_constraints, zero_constraints, system_matrix,
                   mass_matrix, system_rhs, present_solution, evaluation_point,
                   newton, rm, buffer>>

\* present_solution += solution_increment
ImexUpdate ==
    /\ pc = "update" /\ ctrl = "imex"
    /\ present_solution' = Add(present_solution, increment)
    /\ hist' = [hist EXCEPT !.ev = Event("update"), !.completed = @ + 1]
    /\ pc' = "output"
    /\ UNCHANGED <<cell_property, returned, vm, solver_control>>
    /\ UNCHANGED <<ctrl, failure, parameters, time, mesh, refine_flags,
                   coarsen_flags, dofs, nonzero_constraints, zero_constraints,
                   system_matrix, mass_matrix, mass_schur, preconditioner,
                   system_rhs, increment, evaluation_point, newton, rm, buffer>>

-----------------------------------------------------------------------------
(* ParallelNavierStokes::run_one_step(apply_nonzero_constraints) *)

\* the absolute floor of the loop test
ResidualFloor == Pos(-14)

\* a variant of the loop test that compares the residual itself, not the
\* relative one, with the tolerance
NewtonContinueAbsolute(nl, tolerance) ==
    Gt(nl.current_residual, tolerance) /\ Gt(nl.current_residual, ResidualFloor)

\* a variant of the loop test that goes on until both residuals are small
NewtonContinueUntilBoth(nl, tolerance) ==
    Gt(nl.relative_residual, tolerance) \/ Gt(nl.current_residual, ResidualFloor)

\* while (relative_residual > tolerance && current_residual > 1e-14)
NewtonContinue(nl, tolerance) ==
    Gt(nl.relative_residual, tolerance) /\ Gt(nl.current_residual, ResidualFloor)

\* a variant of the iteration budget that lets one more iteration through
NewtonBudgetLeftPlusOne(nl, max_iteration) == nl.outer_iteration <= max_iteration

\* AssertThrow(outer_iteration < parameters.fluid_max_iterations, ...)
NewtonBudgetLeft(nl, max_iteration) == nl.outer_iteration < max_iteration

\* a variant that keeps the nonzero constraints for the whole first step
NewtonUseNonzeroAllIterations(nl) == nl.apply_nonzero_constraints

\* assemble(apply_nonzero_constraints && outer_iteration == 0), and solve alike
NewtonUseNonzero(nl) == nl.apply_nonzero_constraints /\ nl.outer_iteration = 0

\* the head of run_one_step: first output, time.increment(), the residuals and
\* the iteration count reset, evaluation_point = present_solution
NewtonStepBegin ==
    /\ pc = "step" /\ ctrl = "newton"
    /\ time' = Increment(time)
    /\ newton' = [NewtonLocals EXCEPT
                    !.apply_nonzero_constraints = newton.apply_nonzero_constraints]
    /\ evaluation_point' = present_solution
    /\ hist' = [hist EXCEPT !.outputs = @ + InitialOutput(time), !.iterations = 0]
    /\ pc' = "newton_test"
    /\ UNCHANGED <<cell_property, returned, vm, solver_control>>
    /\ UNCHANGED <<ctrl, failure, parameters, mesh, refine_flags, coarsen_flags,
                   dofs, nonzero_constraints, zero_constraints, system_matrix,
                   mass_matrix, mass_schur, preconditioner, system_rhs,
                   present_solution, increment, rm, buffer>>

\* the loop test, the AssertThrow on the iteration count, newton_update = 0
NewtonTest ==
    /\ pc = "newton_test"
    /\ IF NewtonContinue(newton, parameters.tolerance)
       THEN IF NewtonBudgetLeft(newton, parameters.max_iteration)
            THEN /\ increment' = SetZero(increment)
                 /\ pc' = "assemble" /\ failure' = failure
            ELSE /\ increment' = increment
                 /\ Abort("newton")
       ELSE /\ increment' = increment
            /\ pc' = "commit" /\ failure' = failure
    /\ UNCHANGED <<cell_property, returned, vm, solver_control>>
    /\ UNCHANGED <<ctrl, parameters, time, mesh, refine_flags, coarsen_flags,
                   dofs, nonzero_constraints, zero_constraints, system_matrix,
                   mass_matrix, mass_schur, preconditioner, system_rhs,
                   present_solution, evaluation_point, newton, rm, buffer, hist>>

\* ParallelNavierStokes::assemble(use_nonzero_constraints): both matrices and
\* the right-hand side are zeroed and filled at evaluation_point
NewtonAssembleCall(use_nonzero_constraints) ==
    /\ system_matrix' =
          Matrix(system_matrix.mesh, "assembled",
                 ConstraintName(use_nonzero_constraints),
                 <<evaluation_point.b, evaluation_point.f>>)
    /\ mass_matrix' =
          Matrix(mass_matrix.mesh, "assembled",
                 ConstraintName(use_nonzero_constraints), <<>>)
    /\ system_rhs' = [Rhs(system_rhs.mesh, TRUE) EXCEPT
                         !.force = BodyForce(cell_property, mesh)]

NewtonAssemble ==
    /\ pc = "assemble" /\ ctrl = "newton"
    /\ NewtonAssembleCall(NewtonUseNonzero(newton))
    /\ hist' = [hist EXCEPT !.ev = Event("assemble"),
                            !.used_nonzero = NewtonUseNonzero(newton)]
    /\ pc' = "solve"
    /\ UNCHANGED <<cell_property, returned, vm, solver_control>>
    /\ UNCHANGED <<ctrl, failure, parameters, time, mesh, refine_flags,
                   coarsen_flags, dofs, nonzero_constraints, zero_constraints,
                   mass_schur, preconditioner, present_solution, increment,
                   evaluation_point, newton, rm, buffer>>

\* ParallelNavierStokes::solve(use_nonzero_constraints): a new preconditioner
\* at every call
NewtonSolveCall(use_nonzero_constraints) ==
    /\ preconditioner' = NewPreconditioner
    /\ mass_schur' = BuildSchur
    /\ KrylovSolve(NewPreconditioner, use_nonzero_constraints, "newton_update")

NewtonSolve ==
    /\ pc = "solve" /\ ctrl = "newton"
    /\ NewtonSolveCall(NewtonUseNonzero(newton))
    /\ hist' = NoteSolve(NewtonUseNonzero(newton))
    /\ UNCHANGED <<cell_property, returned, vm>>
    /\ UNCHANGED <<ctrl, parameters, time, mesh, refine_flags, coarsen_flags,
                   dofs, nonzero_constraints, zero_constraints, system_matrix,
                   mass_matrix, system_rhs, present_solution, evaluation_point,
                   newton, rm, buffer>>

\* the rest of the loop body: current_residual, evaluation_point += newton_update
\* with the nonzero constraints distributed, the residuals, outer_iteration++
NewtonUpdate ==
    /\ pc = "newton_update"
    /\ evaluation_point' =
          Distribute(nonzero_constraints, Add(evaluation_point, increment))
    /\ \E current \in RhsNorms :
          LET initial == IF newton.outer_iteration = 0
                         THEN current ELSE newton.initial_residual
          IN  newton' = [newton EXCEPT !.current_residual = current,
                                       !.initial_residual = initial,
                                       !.relative_residual = Quot(current, initial),
                                       !.outer_iteration = @ + 1]
    /\ pc' = "newton_test"
    /\ UNCHANGED <<cell_property, returned, vm, solver_control>>
    /\ UNCHANGED <<ctrl, failure, parameters, time, mesh, refine_flags,
                   coarsen_flags, dofs, nonzero_constraints, zero_constraints,
                   system_matrix, mass_matrix, mass_schur, preconditioner,
                   system_rhs, present_solution, increment, rm, buffer, hist>>

\* a variant of the commit that adds the last increment to the solution
NewtonCommitIncrement ==
    /\ pc = "commit"
    /\ present_solution' = Add(present_solution, increment)
    /\ newton' = [NewtonLocals EXCEPT
                    !.apply_nonzero_constraints = newton.apply_nonzero_constraints]
    /\ hist' = [hist EXCEPT !.ev = Event("update"), !.completed = @ + 1]
    /\ pc' = "output"
    /\ UNCHANGED <<cell_property, returned, vm, solver_control>>
    /\ UNCHANGED <<ctrl, failure, parameters, time, mesh, refine_flags,
                   coarsen_flags, dofs, nonzero_constraints, zero_constraints,
                   system_matrix, mass_matrix, mass_schur, preconditioner,
                   system_rhs, increment, evaluation_point, rm, buffer>>

\* present_solution = evaluation_point, once the loop has ended; the locals of
\* the loop are dead from here on
NewtonCommit ==
    /\ pc = "commit"
    /\ present_solution' = evaluation_point
    /\ newton' = [NewtonLocals EXCEPT
                    !.apply_nonzero_constraints = newton.apply_nonzero_constraints]
    /\ hist' = [hist EXCEPT !.ev = Event("update"), !.completed = @ + 1]
    /\ pc' = "output"
    /\ UNCHANGED <<cell_property, returned, vm, solver_control>>
    /\ UNCHANGED <<ctrl, failure, parameters, time, mesh, refine_flags,
                   coarsen_flags, dofs, nonzero_constraints, zero_constraints,
                   system_matrix, mass_matrix, mass_schur, preconditioner,
                   system_rhs, increment, evaluation_point, rm, buffer>>

-----------------------------------------------------------------------------
(* refine_mesh(min_grid_level, max_grid_level), the same in both controllers *)

\* the Kelly estimate, refine_and_coarsen_fixed_fraction(.., 0.6, 0.4), and the
\* two loops that clear refine flags from max_grid_level up and coarsen flags
\* on min_grid_level
RefineFlag ==
    /\ pc = "refine_mesh"
    /\ \E fl \in Flaggings(mesh) :
          /\ refine_flags' = ClearRefineFlags(mesh, fl.refine, rm.max_grid_level)
          /\ coarsen_flags' = ClearCoarsenFlags(mesh, fl.coarsen, rm.min_grid_level)
          /\ hist' = [hist EXCEPT
                        !.ev = Event("refine_begin"),
                        !.snapshot = present_solution,
                        !.mesh_before = mesh,
                        !.flagged_max =
                            \E c \in fl.refine : Level(c) >= rm.max_grid_level,
                        !.flagged_min =
                            \E c \in fl.coarsen : Level(c) = rm.min_grid_level]
    /\ pc' = "rm_snapshot"
    /\ UNCHANGED <<cell_property, returned, vm, solver_control>>
    /\ UNCHANGED <<ctrl, failure, parameters, time, mesh, dofs,
                   nonzero_constraints, zero_constraints, system_matrix,
                   mass_matrix, mass_schur, preconditioner, system_rhs,
                   present_solution, increment, evaluation_point, newton, rm,
                   buffer>>

\* a variant that prepares the topology change without handing the field to
\* the SolutionTransfer
RefineWithoutSnapshot ==
    /\ pc = "rm_snapshot"
    /\ coarsen_flags' = PrepareCoarsening(mesh, coarsen_flags)
    /\ pc' = "rm_execute"
    /\ UNCHANGED <<cell_property, returned, vm, solver_control>>
    /\ UNCHANGED <<ctrl, failure, parameters, time, mesh, refine_flags, dofs,
                   nonzero_constraints, zero_constraints, system_matrix,
                   mass_matrix, mass_schur, preconditioner, system_rhs,
                   present_solution, increment, evaluation_point, newton, rm,
                   buffer, hist>>

\* the field is handed to the SolutionTransfer (IMEX: a copy, buffer; Newton:
\* present_solution itself), around prepare_coarsening_and_refinement()
RefineSnapshot ==
    /\ pc = "rm_snapshot"
    /\ buffer' = present_solution
    /\ coarsen_flags' = PrepareCoarsening(mesh, coarsen_flags)
    /\ pc' = "rm_execute"
    /\ UNCHANGED <<cell_property, returned, vm, solver_control>>
    /\ UNCHANGED <<ctrl, failure, parameters, time, mesh, refine_flags, dofs,
                   nonzero_constraints, zero_constraints, system_matrix,
                   mass_matrix, mass_schur, preconditioner, system_rhs,
                   present_solution, increment, evaluation_point, newton, rm,
                   hist>>

\* triangulation.execute_coarsening_and_refinement()
RefineExecute ==
    /\ pc = "rm_execute"
    /\ mesh' = ExecuteCoarseningAndRefinement(mesh, refine_flags, coarsen_flags)
    /\ refine_flags' = NoCells
    /\ coarsen_flags' = NoCells
    /\ pc' = "rm_setup_dofs"
    /\ UNCHANGED <<cell_property, returned, vm, solver_control>>
    /\ UNCHANGED <<ctrl, failure, parameters, time, dofs, nonzero_constraints,
                   zero_constraints, system_matrix, mass_matrix, mass_schur,
                   preconditioner, system_rhs, present_solution, increment,
                   evaluation_point, newton, rm, buffer, hist>>

RefineSetupDofs ==
    /\ pc = "rm_setup_dofs"
    /\ SetupDofs(mesh)
    /\ pc' = "rm_make_constraints"
    /\ UNCHANGED <<cell_property, returned, vm, solver_control>>
    /\ UNCHANGED <<ctrl, failure, parameters, time, mesh, refine_flags,
                   coarsen_flags, nonzero_constraints, zero_constraints,
                   system_matrix, mass_matrix, mass_schur, preconditioner,
                   system_rhs, present_solution, increment, evaluation_point,
                   newton, rm, buffer, hist>>

RefineMakeConstraints ==
    /\ pc = "rm_make_constraints"
    /\ MakeConstraints(dofs)
    /\ IF ComponentMask(parameters.bc_flag) # Unrecognized
       THEN pc' = "rm_initialize_system" /\ failure' = failure
       ELSE TRUE
    /\ UNCHANGED <<cell_property, returned, vm, solver_control>>
    /\ UNCHANGED <<ctrl, parameters, time, mesh, refine_flags,
                   coarsen_flags, dofs, system_matrix, mass_matrix, mass_schur,
                   preconditioner, system_rhs, present_solution, increment,
                   evaluation_point, newton, rm, buffer, hist>>

RefineInitializeSystem ==
    /\ pc = "rm_initialize_system"
    /\ InitializeSystem(dofs)
    /\ pc' = "rm_interpolate"
    /\ UNCHANGED <<returned, vm, solver_control>>
    /\ UNCHANGED <<ctrl, failure, parameters, time, mesh, refine_flags,
                   coarsen_flags, dofs, nonzero_constraints, zero_constraints,
                   newton, rm, buffer, hist>>

\* SolutionTransfer::interpolate: the transferred field on the new DOF layout
Interpolate(v, d) == Vec(d, v.b, v.f)

\* IMEX: solution_transfer.interpolate(buffer, present_solution).
\* Newton: tmp(newton_update); tmp = 0; trans.interpolate(tmp); buffer stands
\* for tmp from here on.
RefineInterpolate ==
    /\ pc = "rm_interpolate"
    /\ IF ctrl = "imex"
       THEN /\ present_solution' = Interpolate(buffer, present_solution.mesh)
            /\ buffer' = buffer
       ELSE /\ buffer' = Interpolate(buffer, increment.mesh)
            /\ present_solution' = present_solution
    /\ pc' = "rm_distribute"
    /\ UNCHANGED <<cell_property, returned, vm, solver_control>>
    /\ UNCHANGED <<ctrl, failure, parameters, time, mesh, refine_flags,
                   coarsen_flags, dofs, nonzero_constraints, zero_constraints,
                   system_matrix, mass_matrix, mass_schur, preconditioner,
                   system_rhs, increment, evaluation_point, newton, rm, hist>>

\* IMEX: nonzero_constraints.distribute(present_solution).
\* Newton: nonzero_constraints.distribute(tmp); present_solution = tmp.
\* The transfer buffer is a local of refine_mesh and ends with it.
RefineDistribute ==
    /\ pc = "rm_distribute"
    /\ present_solution' =
          Distribute(nonzero_constraints,
                     IF ctrl = "imex" THEN present_solution ELSE buffer)
    /\ hist' = [hist EXCEPT !.ev = Event("refine_end"),
                            !.refined_in = time.timestep]
    /\ buffer' = EmptyVec
    /\ pc' = "loop"
    /\ UNCHANGED <<cell_property, returned, vm, solver_control>>
    /\ UNCHANGED <<ctrl, failure, parameters, time, mesh, refine_flags,
                   coarsen_flags, dofs, nonzero_constraints, zero_constraints,
                   system_matrix, mass_matrix, mass_schur, preconditioner,
                   system_rhs, increment, evaluation_point, newton, rm>>

-----------------------------------------------------------------------------
(* The external coupling collaborator, between two time steps *)

\* the collaborator writes the indicator, the acceleration and the stress of
\* every quadrature point of the active cells
CouplingWrite ==
    /\ pc = "loop"
    /\ \E v \in CouplingValues :
          /\ \E c \in mesh : cell_property[c][1] # Property(v)
          /\ cell_property' =
                [c \in DOMAIN cell_property |->
                    IF c \in mesh THEN [q \in 1..NQPoints |-> Property(v)]
                    ELSE cell_property[c]]
    /\ UNCHANGED <<ctrl, pc, failure, parameters, time, mesh, refine_flags,
                   coarsen_flags, dofs, nonzero_constraints, zero_constraints,
                   system_matrix, mass_matrix, mass_schur, preconditioner,
                   system_rhs, present_solution, increment, evaluation_point,
                   newton, rm, buffer, returned, solver_control, vm, hist>>

\* a variant of the accessor that hands out the last increment
ReturnIncrement == increment

\* return present_solution: the caller gets a copy
CurrentSolution == present_solution

\* get_current_solution(), called by the collaborator between two time steps;
\* returned is the caller's copy
GetCurrentSolution ==
    /\ pc = "loop"
    /\ returned # CurrentSolution
    /\ returned' = CurrentSolution
    /\ UNCHANGED <<ctrl, pc, failure, parameters, time, mesh, refine_flags,
                   coarsen_flags, dofs, nonzero_constraints, zero_constraints,
                   system_matrix, mass_matrix, mass_schur, preconditioner,
                   system_rhs, present_solution, increment, evaluation_point,
                   newton, rm, buffer, cell_property, solver_control, vm, hist>>

-----------------------------------------------------------------------------

Next ==
    \/ RunSetup
    \/ RunLoop
    \/ ImexStepBegin
    \/ ImexAssemble
    \/ ImexSolve
    \/ ImexUpdate
    \/ NewtonStepBegin
    \/ NewtonTest
    \/ NewtonAssemble
    \/ NewtonSolve
    \/ NewtonUpdate
    \/ NewtonCommit
    \/ OutputAndRefine
    \/ RefineFlag
    \/ RefineSnapshot
    \/ RefineExecute
    \/ RefineSetupDofs
    \/ RefineMakeConstraints
    \/ RefineInitializeSystem
    \/ RefineInterpolate
    \/ RefineDistribute

Spec == Init /\ [][Next]_vars

\* the runs with the coupling collaborator at work between the time steps, from
\* the configurations that run to the end time with one Newton iteration a step
InitCoupled ==
    /\ Init
    /\ parameters.end_time = MaxEndTime
    /\ parameters.output_interval = MaxEndTime
    /\ parameters.tolerance = Pos(-6)
    /\ parameters.max_iteration = 1

NextCoupled ==
    \/ Next
    \/ CouplingWrite

SpecCoupled == InitCoupled /\ [][NextCoupled]_vars

\* the same runs with the collaborator reading the solution between the steps
NextSnapshot ==
    \/ Next
    \/ GetCurrentSolution

SpecSnapshot == InitCoupled /\ [][NextSnapshot]_vars

-----------------------------------------------------------------------------
(* BlockSchurPreconditioner::vmult, one application *)

\* The blocks are modelled with one entry each, so a vector is an integer and
\* a matrix block is an integer factor; l2_norm is the absolute value.
Abs(x) == IF x < 0 THEN -x ELSE x

\* the largest entry a prior content of dst takes
MaxPrior == 1

\* the source blocks: zero, an entry of ordinary size, and one so large that
\* 1e-6 of its norm is more than the spacing of the representable entries
V0Values == {0, 2, 2000000}
V1Values == {0, 4, 4000000}

\* the matrices and scalars the preconditioner was constructed with:
\* A = system_matrix.block(0,0), Bt = system_matrix.block(0,1),
\* Mp = mass_matrix.block(1,1), S = mass_schur
Operators ==
    [A |-> 2, Bt |-> 1, Mp |-> 2, S |-> 2,
     viscosity |-> 1, gamma |-> 1, rho |-> 3, dt |-> 1]

\* SolverControl(max_steps, 1e-6 * norm): the norm is kept, the factor is
\* applied where the control checks a residual
Control(max_steps, norm, state) ==
    [max_steps |-> max_steps, norm |-> norm, state |-> state]

NoControl == Control(0, 0, "none")

\* SolverControl::check: the residual has reached the tolerance.  For integer
\* residuals, r <= 1e-6 * norm is r <= norm \div 10^6.
Converged(M, x, b, control) == Abs(b - M * x) <= control.norm \div 1000000

\* the entries next to the solution of M x = b
Near(M, b) == {(b \div M) - 1, b \div M, (b \div M) + 1}

\* SolverCG::solve(M, x, b, preconditioner) with x holding x0 at the call:
\* the initial residual b - M x0 is checked first, and x0 is returned as it is
\* if it meets the tolerance; otherwise the iteration either reaches an x that
\* meets it, or uses up max_steps and throws NoConvergence, leaving an iterate
\* that does not meet it
CGSolve(M, x0, b, control) ==
    IF Converged(M, x0, b, control)
    THEN {[x |-> x0, state |-> "success"]}
    ELSE {[x |-> x, state |-> "success"] :
             x \in {y \in Near(M, b) : Converged(M, y, b, control)}}
         \cup
         {[x |-> x, state |-> "failure"] :
             x \in {y \in Near(M, b) \cup {x0} : ~Converged(M, y, b, control)}}

\* SparseDirectMUMPS::solve(M, x, b): x is overwritten with the solution
DirectSolve(M, x0, b) == {[x |-> b \div M, state |-> "success"]}

\* the state of one application vmult(dst, src) at its entry: utmp is a copy
\* of src.block(0), tmp is zero, dst holds what the caller left in it; first
\* is the dst an earlier application to the same src returned, if there was one
VmultEntry(c, v0, v1, u0, u1) ==
    [at |-> "mp", variant |-> c,
     src |-> <<v0, v1>>, prior |-> <<u0, u1>>, dst |-> <<u0, u1>>,
     tmp |-> 0, utmp |-> v0, op |-> Operators,
     mp_control |-> NoControl, sm_control |-> NoControl,
     a_control |-> NoControl,
     residual |-> [mp |-> 0, sm |-> 0, a |-> 0],
     u1_at_bt |-> 0, first |-> <<>>]

\* the first block: tmp = -(viscosity + gamma * rho) * Mp^-1 * src.block(1),
\* by a conjugate gradient on the pressure mass matrix from tmp = 0
VmultMp ==
    /\ vm.at = "mp"
    /\ LET control == Control(DofsPerBlock(mesh)[2], Abs(vm.src[2]), "iterate")
       IN  \E r \in CGSolve(vm.op.Mp, vm.tmp, vm.src[2], control) :
              vm' = [vm EXCEPT
                        !.mp_control = [control EXCEPT !.state = r.state],
                        !.residual.mp = vm.src[2] - vm.op.Mp * r.x,
                        !.tmp = IF r.state = "success"
                                THEN -(vm.op.viscosity + vm.op.gamma * vm.op.rho)
                                        * r.x
                                ELSE r.x,
                        !.at = IF r.state = "success" THEN "sm" ELSE "thrown"]
    /\ UNCHANGED <<ctrl, pc, failure, parameters, time, mesh, refine_flags,
                   coarsen_flags, dofs, nonzero_constraints, zero_constraints,
                   system_matrix, mass_matrix, mass_schur, preconditioner,
                   system_rhs, present_solution, increment, evaluation_point,
                   newton, rm, buffer, cell_property, returned, solver_control,
                   hist>>

\* the second block: a conjugate gradient on the Schur surrogate into
\* dst.block(1), which holds what the caller left there; then
\* dst.block(1) *= -rho / dt and dst.block(1) += tmp
VmultSm ==
    /\ vm.at = "sm"
    /\ LET control == Control(DofsPerBlock(mesh)[2], Abs(vm.src[2]), "iterate")
       IN  \E r \in CGSolve(vm.op.S, vm.dst[2], vm.src[2], control) :
              vm' = [vm EXCEPT
                        !.sm_control = [control EXCEPT !.state = r.state],
                        !.residual.sm = vm.src[2] - vm.op.S * r.x,
                        !.dst[2] = IF r.state = "success"
                                   THEN -(vm.op.rho \div vm.op.dt) * r.x + vm.tmp
                                   ELSE r.x,
                        !.at = IF r.state = "success" THEN "bt" ELSE "thrown"]
    /\ UNCHANGED <<ctrl, pc, failure, parameters, time, mesh, refine_flags,
                   coarsen_flags, dofs, nonzero_constraints, zero_constraints,
                   system_matrix, mass_matrix, mass_schur, preconditioner,
                   system_rhs, present_solution, increment, evaluation_point,
                   newton, rm, buffer, cell_property, returned, solver_control,
                   hist>>

\* a variant of the third block without utmp *= -1
VmultBtUnsigned ==
    /\ vm.at = "bt"
    /\ vm' = [vm EXCEPT !.utmp = vm.op.Bt * vm.dst[2] + vm.src[1],
                        !.u1_at_bt = vm.dst[2],
                        !.at = "a"]
    /\ UNCHANGED <<ctrl, pc, failure, parameters, time, mesh, refine_flags,
                   coarsen_flags, dofs, nonzero_constraints, zero_constraints,
                   system_matrix, mass_matrix, mass_schur, preconditioner,
                   system_rhs, present_solution, increment, evaluation_point,
                   newton, rm, buffer, cell_property, returned, solver_control,
                   hist>>

\* the third block: utmp = block(0,1) * dst.block(1); utmp *= -1;
\* utmp += src.block(0)
VmultBt ==
    /\ vm.at = "bt"
    /\ vm' = [vm EXCEPT !.utmp = -(vm.op.Bt * vm.dst[2]) + vm.src[1],
                        !.u1_at_bt = vm.dst[2],
                        !.at = "a"]
    /\ UNCHANGED <<ctrl, pc, failure, parameters, time, mesh, refine_flags,
                   coarsen_flags, dofs, nonzero_constraints, zero_constraints,
                   system_matrix, mass_matrix, mass_schur, preconditioner,
                   system_rhs, present_solution, increment, evaluation_point,
                   newton, rm, buffer, cell_property, returned, solver_control,
                   hist>>

\* the tolerance of the velocity solve is scaled by the norm of src.block(0)
VelocityControl(v) ==
    Control(DofsPerBlock(mesh)[1], Abs(v.src[1]), "iterate")

\* the last block: the velocity solve of block(0,0) with the right-hand side
\* utmp into dst.block(0): in the IMEX preconditioner a conjugate gradient that
\* starts from what the caller left in dst.block(0), in the Newton
\* preconditioner the direct solver
VmultA ==
    /\ vm.at = "a"
    /\ LET control == IF vm.variant = "imex" THEN VelocityControl(vm)
                      ELSE NoControl
           results == IF vm.variant = "imex"
                      THEN CGSolve(vm.op.A, vm.dst[1], vm.utmp, control)
                      ELSE DirectSolve(vm.op.A, vm.dst[1], vm.utmp)
       IN  \E r \in results :
              vm' = [vm EXCEPT
                        !.a_control = [control EXCEPT !.state = r.state],
                        !.residual.a = vm.utmp - vm.op.A * r.x,
                        !.dst[1] = r.x,
                        !.at = IF r.state = "success" THEN "done" ELSE "thrown"]
    /\ UNCHANGED <<ctrl, pc, failure, parameters, time, mesh, refine_flags,
                   coarsen_flags, dofs, nonzero_constraints, zero_constraints,
                   system_matrix, mass_matrix, mass_schur, preconditioner,
                   system_rhs, present_solution, increment, evaluation_point,
                   newton, rm, buffer, cell_property, returned, solver_control,
                   hist>>

\* the caller applies the same operator to the same src once more, with other
\* contents left in dst
VmultAgain ==
    /\ vm.at = "done" /\ vm.first = <<>>
    /\ \E u0 \in 0..MaxPrior, u1 \in 0..MaxPrior :
          /\ <<u0, u1>> # vm.prior
          /\ vm' = [VmultEntry(vm.variant, vm.src[1], vm.src[2], u0, u1) EXCEPT
                       !.first = vm.dst]
    /\ UNCHANGED <<ctrl, pc, failure, parameters, time, mesh, refine_flags,
                   coarsen_flags, dofs, nonzero_constraints, zero_constraints,
                   system_matrix, mass_matrix, mass_schur, preconditioner,
                   system_rhs, present_solution, increment, evaluation_point,
                   newton, rm, buffer, cell_property, returned, solver_control,
                   hist>>

\* one application of a constructed preconditioner of either controller, on
\* every source and every prior content of dst of the bounded sets; the
\* controller around it stands still, in the middle of a solve
InitVmult ==
    /\ ctrl \in Controllers
    /\ parameters \in ParametersOf(ctrl)
    /\ parameters.end_time = MaxEndTime
    /\ parameters.output_interval = MaxEndTime
    /\ parameters.refinement_interval = MaxEndTime
    /\ parameters.tolerance = Pos(-6)
    /\ parameters.max_iteration = 1
    /\ parameters.bc_flag \in 1..7
    /\ time = NewTime(parameters)
    /\ pc = "vmult"
    /\ failure = "none"
    /\ mesh = RefineGlobal(0)
    /\ refine_flags = NoCells
    /\ coarsen_flags = NoCells
    /\ dofs = mesh
    /\ nonzero_constraints = NoConstraints
    /\ zero_constraints = NoConstraints
    /\ system_matrix = EmptyMatrix
    /\ mass_matrix = EmptyMatrix
    /\ mass_schur = EmptyMatrix
    /\ preconditioner = NullPreconditioner
    /\ system_rhs = Rhs(NoCells, FALSE)
    /\ present_solution = EmptyVec
    /\ increment = EmptyVec
    /\ evaluation_point = EmptyVec
    /\ newton = NewtonLocals
    /\ rm = RefineArgs(0, 0)
    /\ buffer = EmptyVec
    /\ cell_property = NoProperties
    /\ returned = EmptyVec
    /\ solver_control = NoSolverControl
    /\ hist = InitHist
    /\ \E v0 \in V0Values, v1 \in V1Values, u0 \in 0..MaxPrior, u1 \in 0..MaxPrior :
          vm = VmultEntry(ctrl, v0, v1, u0, u1)

NextVmult ==
    \/ VmultMp
    \/ VmultSm
    \/ VmultBt
    \/ VmultA
    \/ VmultAgain

SpecVmult == InitVmult /\ [][NextVmult]_vars

-----------------------------------------------------------------------------
(* make_constraints(), applied to every flag in both dimensions *)

\* the start of run() of either instantiation, <2> or <3>, with a boundary
\* entry of any flag of 0..8
InitConstraints ==
    /\ ctrl \in Controllers
    /\ \E p \in ParametersOf(ctrl), flag \in 0..8, dim \in Dimensions :
          parameters = [p EXCEPT !.bc_flag = flag, !.dim = dim]
    /\ time = NewTime(parameters)
    /\ pc = "start"
    /\ failure = "none"
    /\ mesh = RefineGlobal(0)
    /\ refine_flags = NoCells
    /\ coarsen_flags = NoCells
    /\ dofs = NoCells
    /\ nonzero_constraints = NoConstraints
    /\ zero_constraints = NoConstraints
    /\ system_matrix = EmptyMatrix
    /\ mass_matrix = EmptyMatrix
    /\ mass_schur = EmptyMatrix
    /\ preconditioner = NullPreconditioner
    /\ system_rhs = Rhs(NoCells, FALSE)
    /\ present_solution = EmptyVec
    /\ increment = EmptyVec
    /\ evaluation_point = EmptyVec
    /\ newton = NewtonLocals
    /\ rm = RefineArgs(0, 0)
    /\ buffer = EmptyVec
    /\ cell_property = NoProperties
    /\ returned = EmptyVec
    /\ solver_control = NoSolverControl
    /\ vm = NoVmult
    /\ hist = InitHist

\* run() up to the time loop: setup_dofs, make_constraints, initialize_system
SpecConstraints == InitConstraints /\ [][RunSetup]_vars

-----------------------------------------------------------------------------
(* assemble(), applied to chosen coupling data *)

\* the largest acceleration and stress the coupling data holds
MaxCoupling == 1

\* the records a quadrature point may hold: not coupled (0), coupled (1), and
\* an indicator that is neither
PropertyRecords ==
    [indicator : {0, 1, 2},
     fsi_acceleration : 0..MaxCoupling,
     fsi_stress : 0..MaxCoupling]

\* assemble() of the controller at work, in the first iteration of time step 1
AssembleAgain ==
    /\ pc = "assembling"
    /\ IF ctrl = "imex"
       THEN ImexAssembleCall(ImexApplyNonzero(time), ImexAssembleSystem(time))
       ELSE NewtonAssembleCall(NewtonUseNonzero(newton))
    /\ hist' = [hist EXCEPT !.ev = Event("assemble")]
    /\ UNCHANGED <<ctrl, pc, failure, parameters, time, mesh, refine_flags,
                   coarsen_flags, dofs, nonzero_constraints, zero_constraints,
                   mass_schur, preconditioner, present_solution, increment,
                   evaluation_point, newton, rm, buffer, cell_property,
                   returned, solver_control, vm>>

\* between two assemblies the collaborator overwrites the acceleration and the
\* stress of a quadrature point whose indicator is not 1
OverwriteUncoupled ==
    /\ pc = "assembling"
    /\ hist.ev = Event("assemble")
    /\ \E c \in mesh, q \in 1..NQPoints, a \in 0..MaxCoupling, st \in 0..MaxCoupling :
          /\ cell_property[c][q].indicator # 1
          /\ <<a, st>> # <<cell_property[c][q].fsi_acceleration,
                           cell_property[c][q].fsi_stress>>
          /\ cell_property' =
                [cell_property EXCEPT ![c][q].fsi_acceleration = a,
                                      ![c][q].fsi_stress = st]
    /\ hist' = [hist EXCEPT !.ev = <<"overwrite", time.timestep>>]
    /\ UNCHANGED <<ctrl, pc, failure, parameters, time, mesh, refine_flags,
                   coarsen_flags, dofs, nonzero_constraints, zero_constraints,
                   system_matrix, mass_matrix, mass_schur, preconditioner,
                   system_rhs, present_solution, increment, evaluation_point,
                   newton, rm, buffer, returned, solver_control, vm>>

\* either controller about to assemble in time step 1, on the coarse mesh
\* after initialize_system, with every content of the coupling data
InitAssemble ==
    /\ ctrl \in Controllers
    /\ parameters \in ParametersOf(ctrl)
    /\ parameters.end_time = MaxEndTime
    /\ parameters.output_interval = MaxEndTime
    /\ parameters.refinement_interval = MaxEndTime
    /\ parameters.tolerance = Pos(-6)
    /\ parameters.max_iteration = 1
    /\ parameters.bc_flag \in 1..7
    /\ time = Increment(NewTime(parameters))
    /\ pc = "assembling"
    /\ failure = "none"
    /\ mesh = RefineGlobal(0)
    /\ refine_flags = NoCells
    /\ coarsen_flags = NoCells
    /\ dofs = mesh
    /\ nonzero_constraints =
          [mesh |-> mesh, b |-> parameters.bc_value,
           mask |-> ComponentMask(parameters.bc_flag)]
    /\ zero_constraints =
          [mesh |-> mesh, b |-> 0, mask |-> ComponentMask(parameters.bc_flag)]
    /\ system_matrix = ReinitMatrix(mesh)
    /\ mass_matrix = ReinitMatrix(mesh)
    /\ mass_schur = ReinitMatrix(mesh)
    /\ preconditioner = NullPreconditioner
    /\ system_rhs = Rhs(mesh, FALSE)
    /\ present_solution = Vec(mesh, 0, 0)
    /\ increment = Vec(mesh, 0, 0)
    /\ evaluation_point = Vec(mesh, 0, 0)
    /\ newton = [NewtonLocals EXCEPT !.apply_nonzero_constraints = TRUE]
    /\ rm = RefineArgs(0, 0)
    /\ buffer = EmptyVec
    /\ cell_property \in [mesh -> [1..NQPoints -> PropertyRecords]]
    /\ returned = EmptyVec
    /\ solver_control = NoSolverControl
    /\ vm = NoVmult
    /\ hist = InitHist

NextAssemble ==
    \/ AssembleAgain
    \/ OverwriteUncoupled

SpecAssemble == InitAssemble /\ [][NextAssemble]_vars

-----------------------------------------------------------------------------
(* The operators of the IMEX controller across time steps *)

\* the operators a solve works with are usable: assembled, and on the current
\* DOF layout
Assembled(matrix) == matrix.kind = "assembled" /\ matrix.mesh = dofs

\* C1: in the IMEX controller, for every time step with index >= 3, whatever
\* the cadence, the system matrix and the mass matrix in effect at the solve of
\* the step are identical to those in effect at the solve of the step before.
\* The run with a refine_mesh at the end of step 2 violates it: the matrices
\* of step 3 are the zeroed ones initialize_system left.
C1_OperatorsKeptFromStep3 ==
    (ctrl = "imex" /\ hist.solved.step >= 3) =>
        /\ hist.solved_before.step = hist.solved.step - 1
        /\ hist.solved.system = hist.solved_before.system
        /\ hist.solved.mass = hist.solved_before.mass

\* C2: in the IMEX controller, at every call of solve() the preconditioner
\* exists, and the preconditioner, the system matrix, the mass matrix and the
\* Schur surrogate were built after the most recent initialize_system(), for
\* the current DOF layout.  A solve that rebuilds the preconditioner and the
\* surrogate itself (assemble_system) needs only the matrices.  The run with a
\* refine_mesh at the end of step 2 violates it at the solve of step 3.
C2_SolveOnValidOperators ==
    (ctrl = "imex" /\ pc = "solve") =>
        /\ Assembled(system_matrix)
        /\ Assembled(mass_matrix)
        /\ \/ ImexAssembleSystem(time)
           \/ /\ ~preconditioner.null
              /\ preconditioner.mesh = dofs
              /\ Assembled(mass_schur)

-----------------------------------------------------------------------------
(* The nonlinear loop of the Newton controller *)

\* the two halves of the convergence test, on the residuals of the loop
RelativeMet == ~Gt(newton.relative_residual, parameters.tolerance)

FloorMet == ~Gt(newton.current_residual, ResidualFloor)

\* the nonlinear loop has stopped without a fatal error
NewtonLoopDone == ctrl = "newton" /\ pc = "commit"

\* the nonlinear loop goes into another iteration
NewtonIterating == ctrl = "newton" /\ pc = "assemble"

\* C3 as stated: whenever the nonlinear loop stops without a fatal error, the
\* relative residual is at most the tolerance AND the absolute residual is at
\* most the floor 1e-14.  A step that ends on one of the two alone violates it.
C3_StopsOnBoth == NewtonLoopDone => (RelativeMet /\ FloorMet)

\* C3, amended: whenever the nonlinear loop stops without a fatal error, the
\* relative residual is at most the tolerance OR the absolute residual is at
\* most the floor 1e-14; the loop goes into another iteration only while both
\* the relative residual exceeds the tolerance and the absolute one the floor.
C3_StopsOnEither ==
    /\ NewtonLoopDone => (RelativeMet \/ FloorMet)
    /\ NewtonIterating => (~RelativeMet /\ ~FloorMet)

\* a step that stopped after an iteration on the relative residual alone
C3_Witness ==
    /\ NewtonLoopDone
    /\ newton.outer_iteration >= 1
    /\ RelativeMet
    /\ ~FloorMet

\* C4: in the Newton controller, when the iteration count of a time step has
\* reached max_iteration and the convergence test still fails, run_one_step
\* raises the fatal "Too many Newton iterations!" condition instead of going
\* on or returning, and it raises it in no other case; so no time step makes
\* more than max_iteration assemble/solve iterations.
C4_IterationBudget ==
    /\ [](ctrl = "newton" => hist.iterations <= parameters.max_iteration)
    /\ [](failure = "newton" =>
              /\ hist.iterations = parameters.max_iteration
              /\ ~RelativeMet /\ ~FloorMet)
    /\ [][(/\ pc = "newton_test"
           /\ newton.outer_iteration >= parameters.max_iteration
           /\ ~RelativeMet /\ ~FloorMet)
          => (pc' = "aborted" /\ failure' = "newton")]_vars

\* a step that used up its iterations and was ended by the fatal condition
C4_Witness ==
    /\ pc = "aborted" /\ failure = "newton"
    /\ hist.iterations = parameters.max_iteration
    /\ parameters.max_iteration >= 2

-----------------------------------------------------------------------------
(* The constraint set of an assembly and a solve *)

\* an assemble has run and its solve has not: the matrices show the choice
JustAssembled == pc = "solve"

\* a solve has returned: the constrained entry of the correction shows the
\* constraint set that was distributed
JustSolved == pc \in {"update", "newton_update"}

\* the constraint set the last assemble or solve worked with
ConstraintsSeen ==
    IF JustAssembled THEN system_matrix.cons
    ELSE IF increment.b = parameters.bc_value THEN "nonzero" ELSE "zero"

\* C5: in the Newton controller driven by run(), the assembly and the solve
\* (with the distribution of constraints on the correction that ends it) use
\* the nonzero constraint set on outer iteration 0 of time step 1, and the
\* zero constraint set on every other iteration of every time step.
C5_NewtonNonzeroOnce ==
    (ctrl = "newton" /\ (JustAssembled \/ JustSolved)) =>
        LET first == time.timestep = 1 /\ newton.outer_iteration = 0
        IN  /\ ConstraintsSeen = (IF first THEN "nonzero" ELSE "zero")
            /\ hist.used_nonzero = first

\* the second iteration of time step 1 has solved, with the zero constraints
C5_Witness ==
    /\ ctrl = "newton" /\ JustSolved
    /\ time.timestep = 1 /\ newton.outer_iteration = 1
    /\ ConstraintsSeen = "zero"

\* C6: in the IMEX controller, assemble and solve use the nonzero constraint
\* set on time step 1 and the zero constraint set on every later time step,
\* a step that follows a mesh refinement included.
C6_ImexNonzeroOnStepOne ==
    (ctrl = "imex" /\ (JustAssembled \/ JustSolved)) =>
        LET first == time.timestep = 1
        IN  /\ hist.used_nonzero = first
            /\ (JustSolved \/ ImexAssembleSystem(time)) =>
                   ConstraintsSeen = (IF first THEN "nonzero" ELSE "zero")

\* step 2 has solved on the mesh that the refinement of step 1 left
C6_Witness ==
    /\ ctrl = "imex" /\ JustSolved
    /\ time.timestep = 2 /\ hist.refined_in = 1
    /\ ConstraintsSeen = "zero"

-----------------------------------------------------------------------------
(* The clock and the order of the events of a run *)

\* the positions inside the assemble/solve part of run_one_step
StepInProgress ==
    {"assemble", "solve", "update", "newton_test", "newton_update", "commit"}

\* C7: the time state is advanced exactly once per completed nonlinear solve:
\* outside the assemble/solve part of a step the step index and the current
\* time count the completed solves, also after a step whose solve failed
\* fatally.  A run that a failed solve ends violates it: time.increment() was
\* called at the head of the step.
C7_ClockCountsCompletedSolves ==
    pc \notin StepInProgress =>
        /\ time.timestep = hist.completed
        /\ time.current = hist.completed * time.delta_t

\* a time step of the Newton controller with no iteration: the relative
\* residual starts at 1.0, so the loop is not entered if the tolerance is >= 1
NoIteration == ctrl = "newton" /\ ~Gt(Pos(0), parameters.tolerance)

\* the event e ended the time step e[2], or is the start of the run
EndsStep(e) == e[1] \in {"none", "update", "refine_end"}

\* the event f may be the next event after the event e
EventFollows(e, f) ==
    LET N == f[2]
    IN  CASE f[1] = "assemble" ->
                 \/ EndsStep(e) /\ e[2] = N - 1
                 \/ ctrl = "newton" /\ e = <<"solve", N>>
          [] f[1] = "solve" -> e = <<"assemble", N>>
          [] f[1] = "update" ->
                 \/ e = <<"solve", N>>
                 \/ NoIteration /\ EndsStep(e) /\ e[2] = N - 1
          [] f[1] = "refine_begin" -> e = <<"update", N>>
          [] f[1] = "refine_end" -> e = <<"refine_begin", N>>
          [] OTHER -> FALSE

\* C8: in both controllers the events of time step N come in the order
\* assemble(N), solve(N) (the Newton controller repeats the pair), update of
\* the solution(N), then refine_mesh(N) if it is due, then assemble(N+1): a
\* refinement of step N begins only after the update of step N, and the
\* assembly of step N+1 begins only after a refinement of step N has ended.
C8_EventOrder ==
    [][hist'.ev # hist.ev =>
          /\ EventFollows(hist.ev, hist'.ev)
          /\ hist'.ev[2] = time'.timestep]_vars

\* the assembly of step 2 has begun, after the refinement of step 1
C8_Witness ==
    /\ hist.ev = <<"assemble", 2>>
    /\ hist.refined_in = 1
    /\ hist.completed = 1

-----------------------------------------------------------------------------
(* refine_mesh *)

\* the field being carried across the refinement, once interpolated
Transferred == IF ctrl = "imex" THEN present_solution ELSE buffer

\* the positions of refine_mesh from the topology change to its end
Transition ==
    {"rm_execute", "rm_setup_dofs", "rm_make_constraints", "rm_initialize_system",
     "rm_interpolate", "rm_distribute"}

\* C9: refine_mesh snapshots the field, then executes the topology change,
\* then rebuilds the DOF layout, the constraint sets and the matrices and
\* vectors, then interpolates the snapshot onto the new layout, then applies
\* the nonzero constraint set to the interpolated field; every sub-step finds
\* what its predecessors left and nothing of its successors, and there is no
\* assemble or solve from the topology change to the constraint application.
C9_RefineOrder ==
    /\ pc = "rm_execute" =>
           buffer = hist.snapshot /\ mesh = hist.mesh_before /\ dofs = mesh
    /\ pc = "rm_setup_dofs" =>
           dofs = hist.mesh_before /\ nonzero_constraints.mesh = hist.mesh_before
    /\ pc = "rm_make_constraints" =>
           dofs = mesh /\ nonzero_constraints.mesh = hist.mesh_before
    /\ pc = "rm_initialize_system" =>
           /\ nonzero_constraints.mesh = mesh /\ zero_constraints.mesh = mesh
           /\ present_solution = hist.snapshot
           /\ system_matrix.mesh = hist.mesh_before
    /\ pc = "rm_interpolate" =>
           /\ present_solution = Vec(mesh, 0, 0)
           /\ system_matrix = ReinitMatrix(mesh)
           /\ buffer = hist.snapshot
    /\ pc = "rm_distribute" => Transferred = Interpolate(hist.snapshot, mesh)
    /\ (hist.ev[1] = "refine_end" /\ pc = "loop") =>
           present_solution =
              Distribute(nonzero_constraints, Interpolate(hist.snapshot, mesh))
    /\ pc \in Transition => hist.ev = <<"refine_begin", time.timestep>>
    /\ pc \in {"rm_interpolate", "rm_distribute"} =>
           ~system_rhs.filled /\ preconditioner.null

\* a refinement that changed the mesh has ended, and carried a field over
C9_Witness ==
    /\ hist.ev[1] = "refine_end"
    /\ mesh # hist.mesh_before
    /\ present_solution.mesh = mesh
    /\ present_solution.f >= 1

\* C10: refine_mesh(min_grid_level, max_grid_level) never refines a cell that
\* is active at level max_grid_level or above, and never coarsens a cell that
\* is active at level min_grid_level, whatever the estimator flags; so over
\* the refine_mesh(1, 3) calls of a run no cell appears above level 3.
C10_LevelLimits ==
    /\ \A c \in hist.mesh_before :
          /\ Level(c) >= rm.max_grid_level => Children(c) \cap mesh = {}
          /\ Level(c) = rm.min_grid_level => Parent(c) \notin mesh
    /\ \A c \in mesh : Level(c) <= 3

\* the topology change has run after the estimator flagged a cell at the
\* maximum level for refinement and one at the minimum level for coarsening
C10_Witness ==
    /\ pc = "rm_setup_dofs"
    /\ hist.flagged_max
    /\ hist.flagged_min

-----------------------------------------------------------------------------
(* The cell properties across a change of the DOF layout *)

\* every one of the cells holds NQPoints records, all their fields zero
CellsReset(cp, cells) ==
    \A c \in cells :
        /\ c \in DOMAIN cp
        /\ Len(cp[c]) = NQPoints
        /\ \A q \in 1..NQPoints : cp[c][q] = Property(0)

\* the positions from which the next step of the run is initialize_system
BeforeInitializeSystem == {"start", "rm_initialize_system"}

\* C11: after every initialize_system (at start-up and in every refine_mesh)
\* every active cell holds exactly n_q_points records whose indicator,
\* acceleration and stress are 0, whatever the coupling collaborator wrote
\* before; the records stay so to the end of refine_mesh, and an active cell
\* holds n_q_points records at any time.
C11_CellPropertyReset ==
    /\ [][(pc \in BeforeInitializeSystem /\ pc' # "aborted") =>
             CellsReset(cell_property', mesh')]_vars
    /\ [](pc \in {"rm_interpolate", "rm_distribute"} =>
              CellsReset(cell_property, mesh))
    /\ [](\A c \in mesh \cap DOMAIN cell_property :
              Len(cell_property[c]) = NQPoints)

\* a refinement has reset the records of a cell the collaborator had written:
\* the cell it refined still shows what was written
C11_Witness ==
    /\ pc = "rm_interpolate"
    /\ \E c \in (DOMAIN cell_property) \ mesh : cell_property[c][1] = Property(1)
    /\ \E c \in mesh \cap hist.mesh_before : cell_property[c][1] = Property(0)

-----------------------------------------------------------------------------
(* Configuration errors *)

\* nothing of a time step has run: no step begun, no assembly, no solve, no
\* output
NoPartialRun ==
    /\ time.timestep = 0 /\ time.current = 0
    /\ hist.ev = NoEvent /\ hist.iterations = 0 /\ hist.outputs = 0
    /\ ~system_rhs.filled
    /\ system_matrix = EmptyMatrix
    /\ solver_control = NoSolverControl

\* C12: a boundary-condition entry whose component flag is not one of 1..7
\* makes make_constraints raise the fatal configuration error, in run() before
\* the time loop: the run ends there, with no time step, assembly or solve
\* executed; and the error is raised for no other flag.
C12_UnknownFlagIsFatal ==
    /\ parameters.bc_flag \notin 1..7 =>
           /\ pc \in {"start", "aborted"}
           /\ NoPartialRun
           /\ pc = "aborted" => failure = "configuration"
    /\ failure = "configuration" => parameters.bc_flag \notin 1..7

\* a run that the flag 8 ended in make_constraints
C12_Witness ==
    /\ pc = "aborted" /\ failure = "configuration"
    /\ parameters.bc_flag = 8
    /\ dofs = mesh /\ mesh # NoCells

-----------------------------------------------------------------------------
(* The budgets of the linear solves *)

\* the transition is a call of solve()
SolveCalled == pc = "solve" /\ hist'.ev = Event("solve")

\* the control of the outer solve is the one solve() has just built
OuterControlOf(sc) ==
    /\ sc.solver = "fgmres"
    /\ sc.reduction = -8

\* C13 as stated: the budget of the outer solve is the number of DOFs of the
\* velocity block, and running out of it is fatal.
C13_BudgetIsVelocityBlock ==
    [][(SolveCalled /\ OuterControlOf(solver_control')) =>
          /\ solver_control'.max_steps = DofsPerBlock(dofs)[1]
          /\ solver_control'.state = "failure" =>
                 pc' = "aborted" /\ failure' = "krylov"]_vars

\* C13, amended: the budget of the outer solve is the number of rows of the
\* whole block matrix, velocity and pressure DOFs together, its tolerance is
\* 1e-8 of the norm of the right-hand side, and running out of the budget
\* ends the run: the increment of that solve is never added to the solution.
C13_BudgetIsSystemSize ==
    [][(SolveCalled /\ OuterControlOf(solver_control')) =>
          /\ solver_control'.max_steps =
                 DofsPerBlock(dofs)[1] + DofsPerBlock(dofs)[2]
          /\ solver_control'.state = "failure" =>
                 /\ pc' = "aborted" /\ failure' = "krylov"
                 /\ present_solution' = present_solution
                 /\ evaluation_point' = evaluation_point]_vars

\* an outer solve that ran out of a budget larger than the velocity block
C13_Witness ==
    /\ pc = "aborted" /\ failure = "krylov"
    /\ solver_control.solver = "fgmres" /\ solver_control.state = "failure"
    /\ solver_control.max_steps > DofsPerBlock(dofs)[1]
    /\ hist.ev = Event("solve")

\* the size of the block of src an inner solve of vmult works on: the pressure
\* block for the pressure-mass and the Schur-surrogate solves, the velocity
\* block for the velocity solve
BlockSolvedOn(solver, d) ==
    CASE solver = "cg_mp" -> DofsPerBlock(d)[2]
      [] solver = "cg_sm" -> DofsPerBlock(d)[2]
      [] solver = "cg_a" -> DofsPerBlock(d)[1]

\* C14: an inner solve of the preconditioner that runs out of its budget, the
\* number of DOFs of the block it solves on, ends the run with that failure:
\* it comes out of vmult, solve and run_one_step, the run stays aborted, and
\* neither the solution nor the evaluation point takes the increment of that
\* solve.
C14_InnerFailureIsFatal ==
    /\ [](failure = "inner" =>
             /\ pc = "aborted"
             /\ solver_control.solver \in {"cg_mp", "cg_sm", "cg_a"}
             /\ solver_control.state = "failure"
             /\ solver_control.max_steps =
                    BlockSolvedOn(solver_control.solver, dofs))
    /\ [][(failure' = "inner") =>
             /\ present_solution' = present_solution
             /\ evaluation_point' = evaluation_point
             /\ hist'.completed = hist.completed]_vars
    /\ [][(SolveCalled /\ solver_control'.state = "failure") =>
             pc' = "aborted"]_vars

\* the velocity solve of the IMEX preconditioner ran out of its budget in the
\* second step, after a first step that was completed
C14_Witness ==
    /\ pc = "aborted" /\ failure = "inner"
    /\ solver_control.solver = "cg_a"
    /\ solver_control.max_steps = DofsPerBlock(dofs)[1]
    /\ time.timestep = 2 /\ hist.completed = 1
    /\ increment.f # 0

-----------------------------------------------------------------------------
(* The constraints of a solve *)

\* C15: in every call of solve(), in both controllers, the selection the
\* caller passes is the one it passed to the assemble call just before, the
\* set distributed onto the increment the solve returns is the selected one,
\* and a system matrix that holds assembled entries was assembled with that
\* selection.
C15_SolveDistributesSelection ==
    [][SolveCalled =>
          LET selected == hist'.used_nonzero
          IN  /\ hist.ev = Event("assemble")
              /\ selected = hist.used_nonzero
              /\ selected = IF ctrl = "imex" THEN time.timestep = 1
                            ELSE (newton.apply_nonzero_constraints /\
                                  newton.outer_iteration = 0)
              /\ pc' # "aborted" =>
                     increment'.b = IF selected THEN nonzero_constraints.b
                                    ELSE zero_constraints.b
              /\ system_matrix.kind = "assembled" =>
                     system_matrix.cons = IF selected THEN "nonzero" ELSE "zero"
         ]_vars

\* the second Newton iteration of a step has solved: the system was assembled
\* with the zero set and the zero set was distributed, after a first iteration
\* that used the nonzero set
C15_Witness ==
    /\ ctrl = "newton" /\ pc = "newton_update"
    /\ hist.iterations = 2 /\ ~hist.used_nonzero
    /\ system_matrix.cons = "zero"
    /\ increment.b = 0 /\ nonzero_constraints.b # 0
    /\ evaluation_point.b = nonzero_constraints.b

-----------------------------------------------------------------------------
(* One application of the block preconditioner *)

\* the application has returned to its caller
VmultReturned == vm.at = "done"

\* the application was left by an exception of an inner solve
VmultThrown == vm.at = "thrown"

\* C16: applied to the zero source, whatever dst held before, vmult returns,
\* and returns the zero vector.
C16_ZeroSourceGivesZero ==
    (pc = "vmult" /\ vm.src = <<0, 0>>) =>
        /\ ~VmultThrown
        /\ VmultReturned => vm.dst = <<0, 0>>

-----------------------------------------------------------------------------
(* The accessor of the current solution *)

\* C17: get_current_solution() is a read-only snapshot.  The caller's copy
\* changes only in a call, between two time steps; the call changes nothing
\* else, and the copy it leaves equals present_solution at the call; so no
\* later time step or refinement alters a copy handed out before.
C17_SnapshotReadOnly ==
    [][(returned' # returned) =>
          /\ pc = "loop" /\ pc' = "loop"
          /\ returned' = present_solution
          /\ UNCHANGED <<ctrl, failure, parameters, time, mesh, refine_flags,
                         coarsen_flags, dofs, nonzero_constraints,
                         zero_constraints, system_matrix, mass_matrix,
                         mass_schur, preconditioner, system_rhs,
                         present_solution, increment, evaluation_point, newton,
                         rm, buffer, cell_property, solver_control, vm, hist>>
      ]_vars

\* a copy handed out after the first step is still what it was after a later
\* step and a refinement have changed the solution
C17_Witness ==
    /\ pc = "loop" /\ hist.completed >= 2
    /\ returned.mesh # NoCells
    /\ returned.mesh # present_solution.mesh
    /\ returned.f # present_solution.f

\* the inner solves done so far left no residual: they acted as the exact
\* inverses
ExactPressureSolves == vm.residual.mp = 0 /\ vm.residual.sm = 0

\* C18: with exact inner solves, vmult computes
\* u1 = -(viscosity + gamma rho) Mp^-1 v1 - (rho/dt) S^-1 v1, then
\* utmp = v0 - Bt u1 with that final u1, then u0 = A^-1 utmp, for every source
\* and every prior content of dst.  The equations are stated multiplied by the
\* matrices.
C18_VmultFormula ==
    pc = "vmult" =>
      /\ (vm.at \in {"bt", "a", "done"} /\ ExactPressureSolves) =>
             vm.op.Mp * vm.op.S * vm.dst[2] =
                 -((vm.op.viscosity + vm.op.gamma * vm.op.rho) * vm.op.S
                    + (vm.op.rho \div vm.op.dt) * vm.op.Mp) * vm.src[2]
      /\ vm.at \in {"a", "done"} =>
             /\ vm.utmp = vm.src[1] - vm.op.Bt * vm.dst[2]
             /\ vm.u1_at_bt = vm.dst[2]
      /\ (vm.at = "done" /\ vm.residual.a = 0) =>
             vm.op.A * vm.dst[1] = vm.utmp

\* the application to (2, 4) with (1, 1) left in dst has returned (8, -14)
C18_Witness ==
    /\ pc = "vmult" /\ VmultReturned /\ ExactPressureSolves
    /\ vm.residual.a = 0
    /\ vm.src = <<2, 4>> /\ vm.prior = <<1, 1>>
    /\ vm.dst = <<8, -14>>

\* C19: in the IMEX preconditioner the tolerance of the velocity solve is 1e-6
\* of the norm of its right-hand side utmp, as the tolerances of the two
\* pressure-block solves are 1e-6 of the norm of their right-hand side v1.
C19_VelocityToleranceOnRhs ==
    (pc = "vmult" /\ vm.variant = "imex") =>
       /\ vm.at \in {"bt", "a", "done"} =>
              /\ vm.mp_control.norm = Abs(vm.src[2])
              /\ vm.sm_control.norm = Abs(vm.src[2])
       /\ vm.a_control # NoControl => vm.a_control.norm = Abs(vm.utmp)

-----------------------------------------------------------------------------
(* The construction of the Schur surrogate *)

\* the call of solve() constructs a preconditioner, and with it the surrogate
Constructs == ctrl = "newton" \/ time.timestep < 3

\* the surrogate or the preconditioner it belongs to is not what it was
SchurTouched ==
    \/ mass_schur' # mass_schur
    \/ preconditioner'.built # preconditioner.built

\* C20 as stated: the surrogate is built once per nonlinear-solve cycle: the
\* preconditioner in use was constructed by the first solve call of a time
\* step, and nothing but a construction touches the surrogate.
C20_BuiltOncePerCycle ==
    /\ [](preconditioner.built[2] <= 1)
    /\ [][SchurTouched => (SolveCalled \/ pc \in BeforeInitializeSystem)]_vars

\* C20, amended: the surrogate is built once per call of solve() that
\* constructs a preconditioner, which is every call in the Newton controller
\* (each Newton iteration of a time step) and the call of time steps 1 and 2
\* in the IMEX controller, where later steps keep what step 2 built; between
\* two constructions only initialize_system, which empties it, touches it: no
\* application of the preconditioner inside a solve does.
C20_BuiltOncePerConstruction ==
    /\ [][SolveCalled =>
             IF Constructs
             THEN /\ preconditioner'.built = <<time.timestep, hist'.iterations>>
                  /\ mass_schur'.kind = "assembled"
             ELSE /\ preconditioner' = preconditioner
                  /\ mass_schur' = mass_schur]_vars
    /\ [][SchurTouched => (SolveCalled \/ pc \in BeforeInitializeSystem)]_vars
    /\ [](ctrl = "imex" =>
             preconditioner.built[1] <= 2 /\ preconditioner.built[2] <= 1)

\* the second Newton iteration of a time step has constructed the
\* preconditioner, and built the surrogate, a second time in that step
C20_Witness ==
    /\ ctrl = "newton" /\ pc = "newton_update"
    /\ hist.iterations = 2
    /\ preconditioner.built = <<time.timestep, 2>>
    /\ mass_schur.kind = "assembled"

-----------------------------------------------------------------------------
(* The fields of a Newton time step *)

\* the positions of the Newton loop of a time step
InNewtonLoop == {"newton_test", "assemble", "solve", "newton_update"}

\* C21: in the Newton controller the evaluation field starts a time step as a
\* copy of the solution of the previous step; no Newton iteration of the step
\* changes present_solution, so every assembly of the step sees that solution;
\* and when the loop has ended present_solution takes the final evaluation
\* field.
C21_EvaluationFieldCommitted ==
    [][(ctrl = "newton") =>
          /\ (pc = "step" /\ pc' = "newton_test") =>
                 /\ evaluation_point' = present_solution
                 /\ present_solution' = present_solution
          /\ (pc \in InNewtonLoop) => present_solution' = present_solution
          /\ (pc = "commit" /\ pc' = "output") =>
                 /\ present_solution' = evaluation_point
                 /\ evaluation_point' = evaluation_point]_vars

\* two Newton iterations have moved the evaluation field away from the
\* solution of the previous step, which is still in present_solution
C21_Witness ==
    /\ ctrl = "newton" /\ pc = "commit"
    /\ hist.iterations = 2 /\ time.timestep = 2
    /\ evaluation_point # present_solution
    /\ evaluation_point.mesh = present_solution.mesh

-----------------------------------------------------------------------------
(* The increment of a linear solve *)

IsZeroVector(v) == v.b = 0 /\ v.f = 0

\* C22: the increment is zero when a linear solve starts: it is reset at the
\* head of every IMEX time step and at the head of every Newton iteration, and
\* nothing between the reset and the solve writes it; after the solve the
\* solution field (present_solution in the IMEX controller, the evaluation
\* field in the Newton controller) changes by exactly the increment the solve
\* returned with its constraints distributed.
C22_IncrementZeroAtSolve ==
    /\ [][SolveCalled => IsZeroVector(increment)]_vars
    /\ [][(ctrl = "imex" /\ pc = "step" /\ pc' = "assemble") =>
             IsZeroVector(increment')]_vars
    /\ [][(ctrl = "newton" /\ pc = "newton_test" /\ pc' = "assemble") =>
             IsZeroVector(increment')]_vars
    /\ [][(pc = "update" /\ pc' # "update") =>
             /\ present_solution'.b = present_solution.b + increment.b
             /\ present_solution'.f = present_solution.f + increment.f
             /\ increment' = increment]_vars
    /\ [][(pc = "newton_update" /\ pc' # "newton_update") =>
             /\ evaluation_point'.b = evaluation_point.b + increment.b
             /\ evaluation_point'.f = evaluation_point.f + increment.f
             /\ increment' = increment]_vars

\* the solve of the second IMEX step has returned a nonzero increment, after
\* the first step left a nonzero one behind
C22_Witness ==
    /\ ctrl = "imex" /\ pc = "update" /\ time.timestep = 2
    /\ hist.completed = 1
    /\ increment.f # 0
    /\ present_solution.f # 0

-----------------------------------------------------------------------------
(* The coupling data in the assembly *)

\* C23: the assembly reads the acceleration and the stress of a quadrature
\* point only if its indicator is 1: an assembly that follows one from which it
\* differs only in the acceleration and the stress of points whose indicator
\* is not 1 leaves the matrices and the right-hand side as the first one made
\* them, and the points whose indicator is not 1 add nothing.
C23_IndicatorGatesCoupling ==
    /\ [][(pc = "assembling" /\ hist.ev[1] = "overwrite"
              /\ hist'.ev = Event("assemble")) =>
             /\ system_rhs' = system_rhs
             /\ system_matrix' = system_matrix
             /\ mass_matrix' = mass_matrix]_vars
    /\ [](system_rhs.filled =>
             \A c \in mesh : \A q \in 1..NQPoints :
                 /\ cell_property[c][q].indicator # 1 =>
                        system_rhs.force[c][q] = <<0, 0>>
                 /\ cell_property[c][q].indicator = 1 =>
                        system_rhs.force[c][q] =
                            <<cell_property[c][q].fsi_stress,
                              cell_property[c][q].fsi_acceleration>>)

\* after an assembly the data of a point that is not coupled has been
\* overwritten with a nonzero acceleration and stress, next to a coupled point
\* whose data is in the right-hand side
C23_Witness ==
    /\ pc = "assembling" /\ hist.ev[1] = "overwrite" /\ system_rhs.filled
    /\ \E c \in mesh : \E q, r \in 1..NQPoints :
          /\ cell_property[c][q] =
                 [indicator |-> 0, fsi_acceleration |-> 1, fsi_stress |-> 1]
          /\ system_rhs.force[c][q] = <<0, 0>>
          /\ cell_property[c][r].indicator = 1
          /\ system_rhs.force[c][r] = <<1, 1>>

-----------------------------------------------------------------------------
(* The component mask of a boundary entry *)

\* the velocity components a flag names: 1-x, 2-y, 3-xy, 4-z, 5-xz, 6-yz, 7-xyz
ComponentsNamed(flag) ==
    {i \in 0..2 : (flag \div (2 ^ i)) % 2 = 1}

\* C24: for every flag of 1..7, in two and in three dimensions, the mask that
\* make_constraints builds marks exactly the velocity components the flag
\* names, never the pressure component (index dim), and the switch reads only
\* the entries of the value list that the flag defines, one per component
\* named.
C24_MaskMarksVelocityOnly ==
    (parameters.bc_flag \in 1..7 /\ pc \notin {"start", "aborted"}) =>
       /\ nonzero_constraints.mask = ComponentsNamed(parameters.bc_flag)
       /\ zero_constraints.mask = ComponentsNamed(parameters.bc_flag)
       /\ parameters.dim \notin nonzero_constraints.mask
       /\ parameters.dim \notin zero_constraints.mask
       /\ ValuesRead(parameters.bc_flag) =
              0..(Cardinality(ComponentsNamed(parameters.bc_flag)) - 1)

-----------------------------------------------------------------------------
(* The boundary values of the solution *)

\* the field satisfies the nonzero set: it lives on the DOF layout the set was
\* built for and its constrained entry holds the prescribed value
SatisfiesNonzero(v) ==
    /\ v.mesh = nonzero_constraints.mesh
    /\ v.b = nonzero_constraints.b

\* C25: after every completed time step and after every refine_mesh, in both
\* controllers, present_solution satisfies the nonzero constraint set, although
\* only the first solve of the run uses that set and every later increment
\* has the zero set distributed.
C25_SolutionKeepsBoundaryValues ==
    /\ [][(hist'.completed = hist.completed + 1) =>
             SatisfiesNonzero(present_solution')]_vars
    /\ [][(pc = "rm_distribute" /\ pc' # "rm_distribute") =>
             SatisfiesNonzero(present_solution')]_vars
    /\ []((pc \in {"output", "loop"} /\ hist.completed >= 1) =>
             SatisfiesNonzero(present_solution))

-----------------------------------------------------------------------------
(* The two constraint sets *)

\* C26: after every make_constraints call, at start-up and in every refinement,
\* the zero and the nonzero constraint set constrain the same DOFs (same layout,
\* same component mask) and differ only in the prescribed values, which are
\* zero in the zero set; the two sets are always rebuilt together.
C26_SetsConstrainSameDofs ==
    /\ [](/\ nonzero_constraints.mesh = zero_constraints.mesh
          /\ nonzero_constraints.mask = zero_constraints.mask
          /\ zero_constraints.b = 0)
    /\ [][(pc \in {"start", "rm_make_constraints"} /\ pc' \notin {pc, "aborted"}) =>
             /\ nonzero_constraints'.mesh = dofs'
             /\ zero_constraints'.mesh = dofs'
             /\ nonzero_constraints'.mask = ComponentMask(parameters.bc_flag)
             /\ nonzero_constraints'.b = parameters.bc_value]_vars
    /\ [][(nonzero_constraints' # nonzero_constraints) <=>
             (zero_constraints' # zero_constraints)]_vars

\* make_constraints has run in a refinement that changed the DOF layout: both
\* sets are on the new layout with the same mask, and only the values differ
C26_Witness ==
    /\ pc = "rm_initialize_system"
    /\ dofs # RefineGlobal(parameters.global_refinement)
    /\ nonzero_constraints.mesh = dofs /\ zero_constraints.mesh = dofs
    /\ nonzero_constraints.mask = zero_constraints.mask
    /\ nonzero_constraints.mask # {}
    /\ nonzero_constraints.b # zero_constraints.b

-----------------------------------------------------------------------------
(* The time loop of run() *)

\* C27: in both controllers run() starts a time step only while
\* end - current > 1e-12; when the end time is already reached at start-up
\* (end_time <= 0) no time step is executed, and the loop ends once the current
\* time has reached the end time.
C27_StepsOnlyWhileTimeLeft ==
    /\ [][(pc # "step" /\ pc' = "step") => TimeLeft(time)]_vars
    /\ [](parameters.end_time <= 0 => time.timestep = 0)
    /\ [][(pc = "loop" /\ ~TimeLeft(time)) => pc' = "done"]_vars

-----------------------------------------------------------------------------
(* A failed step commits nothing *)

\* the failures of run_one_step that end the run: an inner solve or the outer
\* Krylov solve that does not converge, or too many Newton iterations
FatalStepFailures == {"inner", "krylov", "newton"}

\* a time step has been started and is not completed
StepOpen == hist.completed < time.timestep

\* C28: when run_one_step ends with a fatal failure (inner solve, outer Krylov
\* solve or Newton loop not converged), present_solution is what it was before
\* the call: nothing changes it while the step is open, the failing transition
\* leaves it alone, the step is not counted as completed, and neither output
\* nor refinement nor anything else follows.
C28_AbortCommitsNothing ==
    /\ [][(StepOpen /\ hist'.completed = hist.completed) =>
             present_solution' = present_solution]_vars
    /\ [][(failure = "none" /\ failure' \in FatalStepFailures) =>
             /\ StepOpen
             /\ present_solution' = present_solution
             /\ hist'.completed = hist.completed
             /\ hist'.outputs = hist.outputs
             /\ mesh' = mesh
             /\ pc' = "aborted"]_vars
    /\ [][(failure \in FatalStepFailures) => FALSE]_vars

\* the Newton loop of the second time step ran out of iterations after an
\* iteration had moved the evaluation point: the solution is still the one
\* the first step committed
C28_Witness ==
    /\ pc = "aborted" /\ failure = "newton"
    /\ time.timestep = 2 /\ hist.completed = 1
    /\ evaluation_point # present_solution
    /\ SatisfiesNonzero(present_solution)

-----------------------------------------------------------------------------
(* The relative residual of the first Newton iteration *)

\* the relative residual computed in outer iteration 0 has just been reported
FirstResidualReported == pc = "newton_test" /\ newton.outer_iteration = 1

\* the tolerance is below 1 and the residual measured in outer iteration 0 of
\* this step is above the floor 1e-14
FirstResidualAboveFloor ==
    /\ ctrl = "newton"
    /\ Gt(Pos(0), parameters.tolerance)
    /\ newton.outer_iteration >= 1
    /\ Gt(newton.initial_residual, ResidualFloor)

\* C29: in the Newton controller the relative residual of outer iteration 0 of
\* every time step is exactly 1, and so with a tolerance below 1 every time step
\* whose first residual exceeds 1e-14 performs at least two assemble/solve
\* iterations.
C29_FirstRelativeResidualIsOne ==
    /\ [](FirstResidualReported => newton.relative_residual = Pos(0))
    /\ [][(FirstResidualAboveFloor /\ pc # pc' /\ pc' \in {"commit", "aborted"}) =>
             hist'.iterations >= 2]_vars

\* C29, as the code has it: the relative residual of outer iteration 0 is 1
\* when the residual of that iteration is not zero and 0/0 = NaN when it is
\* zero; with a tolerance below 1 every time step that is completed and whose
\* first residual exceeds 1e-14 has performed at least two assemble/solve
\* iterations (a step that a fatal failure ends may have performed one).
C29_FirstRelativeResidualIsOneOrNaN ==
    /\ [](FirstResidualReported =>
             newton.relative_residual =
                IF newton.initial_residual = Zero THEN NaN ELSE Pos(0))
    /\ []((pc = "commit" /\ FirstResidualAboveFloor) =>
             /\ newton.outer_iteration >= 2
             /\ hist.iterations >= 2)

\* the second time step is about to be committed after two iterations, the
\* first of which measured a residual above the floor
C29_Witness ==
    /\ pc = "commit" /\ FirstResidualAboveFloor
    /\ time.timestep = 2
    /\ newton.outer_iteration = 2
    /\ newton.initial_residual = Pos(-7)

-----------------------------------------------------------------------------
(* Two applications of the preconditioner to the same source *)

\* a second application to the same src, with other prior contents of dst, is
\* under way or over
SecondApplication == pc = "vmult" /\ vm.first # <<>>

\* C30: the result of vmult is determined by src and the matrices the operator
\* was constructed with: a second application to the same src with other prior
\* contents of dst returns the same dst as the first, and no application
\* changes the system matrix, the mass matrix or the Schur surrogate.
C30_ResultIndependentOfPriorDst ==
    /\ [](SecondApplication =>
             /\ ~VmultThrown
             /\ VmultReturned => vm.dst = vm.first)
    /\ [][(pc = "vmult") =>
             /\ vm'.op = vm.op
             /\ UNCHANGED <<system_matrix, mass_matrix, mass_schur>>]_vars

=============================================================================
